---- MODULE Spec2Model ----
(***************************************************************************)
(* Conversation-transcript persistence of the Prepzo voice agent           *)
(* (src/main.py): the in-memory conversation_history, the Supabase         *)
(* gateway (store_conversation_message, store_full_conversation), the     *)
(* retry_queue with add_to_retry_queue / process_retry_queue, the health   *)
(* probe check_supabase_health, and the asyncio tasks of                   *)
(* run_multimodal_agent that drive them.                                   *)
(*                                                                         *)
(* asyncio is cooperative: a task runs until it reaches an await that      *)
(* really suspends (asyncio.sleep, agent.say, ...).  The Supabase client   *)
(* is synchronous, and check_supabase_health / init_supabase contain no    *)
(* suspending await, so store_conversation_message is one atomic step; a   *)
(* flush suspends only at its sleep(0.5) after each group and a drain only *)
(* at its sleep(0.2) after each attempted item.  One action of this model  *)
(* is one such run between two suspensions.                                *)
(***************************************************************************)
EXTENDS Integers, Sequences, FiniteSets, TLC

(* ---- program constants ---- *)
MAX_RETRY_QUEUE_SIZE == 1000
BATCH_SIZE == 10
MAX_RETRY_COUNT == 5
DRAIN_DEFAULT_BATCH == 10
DRAIN_PERIODIC_BATCH == 5

(* ---- bounds of the model ---- *)
\* longest conversation_history: no message is appended to a Log this long
MaxLog == 3
\* user messages appended in the retry-queue specification
MaxQueueOps == 1
\* failing steps of the store in the retry-queue specification
MaxQueueFaults == 3
\* unstored user messages beyond one group in the flush specification
MaxFlushExtra == 2
\* user messages written in the health-gate specification
MaxGateCalls == 3
\* steps in which the remote store may fail a probe or a write
MaxFaults == 2
\* upserts that may go wrong while the flushes of a long Log are followed
MaxBatchFaults == 1
\* items waiting in the queue, and upserts or probes that may go wrong, while
\* the drains are followed
MaxDrainItems == 2
MaxDrainFaults == 5
\* items waiting in the queue beyond one periodic batch, and upserts or
\* probes that may go wrong, while the cycles of the retry driver are followed
MaxDriverExtra == 2
MaxDriverFaults == 1
\* items waiting beyond one periodic batch and user messages committed
\* later, and upserts or probes that may go wrong, while the order of the
\* drains is followed
MaxFifoExtra == 1
MaxFifoFaults == 2
\* group upserts that may go wrong while the marking of a flush is followed
MaxMarkFaults == 1
MaxDeferLog == 5
MaxDeferFaults == 1
MaxFinalExtra == 1
MaxFinalFaults == 1
\* check_supabase_health() calls that are followed one by one
MaxHealthCalls == 2
\* user messages waiting in the queue when teardown is followed, and upserts
\* or probes that may go wrong then
MaxTeardownItems == 3
MaxTeardownFaults == 1

VARIABLES
    conversation_history,  \* the Log: sequence of message records
    retry_queue,           \* sequence of retry items
    db,                    \* remote table conversation_histories: set of rows
    is_speaking,           \* agent.is_speaking
    faults,                \* environment: failures the remote store may still produce
    clock,                 \* source of get_current_timestamp()
    mainPc,                \* position of run_multimodal_agent
    taskPc,                \* state of the three periodic tasks
    discPc,                \* position of async_disconnect_tasks
    writeTasks,            \* spawned store_conversation_message tasks
    flush,                 \* running store_full_conversation calls, by caller
    drain,                 \* the running process_retry_queue call
    obs                    \* observations of what the operations did

vars == <<conversation_history, retry_queue, db, is_speaking, faults, clock,
          mainPc, taskPc, discPc, writeTasks, flush, drain, obs>>

session_id == "room"

(* message_id values are uuid4 strings in the code; the model keeps only    *)
(* where an id came from.                                                   *)
NoId == 0
OwnId == 1
FreshId == 2

(* Outcomes of one .upsert(...).execute() call. *)
\*   "data"   the rows were written, response.data is non-empty
\*   "nodata" a response without data (nothing written)
\*   "dup"    an exception whose text contains "duplicate key"
\*   "error"  any other exception
Outcomes == {"data", "nodata", "dup", "error"}

(* What the environment allows: while it has failures left the store may    *)
(* answer a probe or a write either way; once it has none it answers every  *)
(* one of them.  A step in which some answer is a failure uses up one.      *)
storeUp == faults = 0
ProbeResults == IF storeUp THEN {TRUE} ELSE BOOLEAN
UpsertResults == IF storeUp THEN {"data"} ELSE Outcomes
Charge(faulty) == IF faulty THEN faults - 1 ELSE faults

(* ---- messages ---- *)
Message(role, content, ts, mid) ==
    [role |-> role, content |-> content, timestamp |-> ts,
     message_id |-> mid, stored |-> FALSE]

(* json.dumps(message): the whole dict, metadata (and its stored flag) included *)
Serialized(msg) ==
    [role |-> msg.role, content |-> msg.content, timestamp |-> msg.timestamp,
     message_id |-> msg.message_id, meta |-> "full", stored |-> msg.stored]

(* the reduced dict {role, content, timestamp, message_id}; a missing       *)
(* message_id is replaced by a new uuid4                                    *)
SafeMessage(msg) ==
    [role |-> msg.role, content |-> msg.content, timestamp |-> msg.timestamp,
     message_id |-> IF msg.message_id = NoId THEN FreshId ELSE msg.message_id,
     meta |-> "none", stored |-> FALSE]

UserEmail(msg) == IF msg.role = "user" THEN "user_email" ELSE ""

Row(pid, conv, ts, email) ==
    [session_id |-> session_id, participant_id |-> pid, conversation |-> conv,
     timestamp |-> ts, user_email |-> email]

Key(row) == <<row.session_id, row.timestamp>>

(* ---- the remote table ---- *)
\* a table without the uniqueness constraint: every upsert adds a row
UpsertInsertOnly(table, row) == table \cup {row}

\* .upsert([row], on_conflict="session_id,timestamp")
UpsertRow(table, row) ==
    {r \in table : Key(r) # Key(row)} \cup {row}

RECURSIVE Upsert(_, _)
Upsert(table, rows) ==
    IF rows = <<>> THEN table
    ELSE Upsert(UpsertRow(table, Head(rows)), Tail(rows))

(* ---- retry queue ---- *)
RetryItem(sid, pid, msg) ==
    [session_id |-> sid, participant_id |-> pid, conversation |-> SafeMessage(msg),
     timestamp |-> msg.timestamp, retry_count |-> 0]

LastN(q, n) ==
    IF Len(q) > n THEN SubSeq(q, Len(q) - n + 1, Len(q)) ELSE q

\* an enqueue that never discards
add_to_retry_queue_NoTrim(q, sid, pid, msg) ==
    Append(q, RetryItem(sid, pid, msg))

add_to_retry_queue(q, sid, pid, msg) ==
    LastN(Append(q, RetryItem(sid, pid, msg)), MAX_RETRY_QUEUE_SIZE)

(* ---- health probe ---- *)
\* check_supabase_health(): the select probe, or init_supabase() after it failed
check_supabase_health(probe, reinit) == probe \/ reinit

(* ---- writeOne: store_conversation_message(session_id, participant_id, conversation) ---- *)
WithId(msg) == [msg EXCEPT !.message_id = IF @ = NoId THEN OwnId ELSE @]

\* what one call did: the new Log, queue and table, whether the probe ran and
\* what it answered, whether an upsert was issued, whether the message was
\* enqueued, and the value returned
WriteResult(log, q, table, probed, healthy, upserted, enqueued, ret) ==
    [log |-> log, queue |-> q, db |-> table, probed |-> probed, healthy |-> healthy,
     upserted |-> upserted, enqueued |-> enqueued, ret |-> ret]

KeysOf(rows) == {Key(rows[k]) : k \in 1..Len(rows)}

\* a gateway without the gate: the health result is ignored and the upsert is
\* always attempted
store_conversation_message_Ungated(log, q, table, speaking, i, pid, healthy, out) ==
    LET withId == WithId(log[i])
        log2 == [log EXCEPT ![i] = withId]
        row == Row(pid, Serialized(withId), withId.timestamp, UserEmail(withId))
    IN  IF out = "data"
        THEN WriteResult(log2, q, UpsertRow(table, row), TRUE, healthy, TRUE, FALSE, TRUE)
        ELSE WriteResult(log2, add_to_retry_queue(q, session_id, pid, withId), table,
                         TRUE, healthy, TRUE, TRUE, FALSE)

\* a gateway that gives up on a failed upsert without enqueueing the message
store_conversation_message_Forgetful(log, q, table, speaking, i, pid, healthy, out) ==
    LET withId == WithId(log[i])
        log2 == [log EXCEPT ![i] = withId]
        row == Row(pid, Serialized(withId), withId.timestamp, UserEmail(withId))
    IN  IF (speaking /\ pid = "system") \/ ~healthy
        THEN WriteResult(log, add_to_retry_queue(q, session_id, pid, log[i]), table,
                         ~(speaking /\ pid = "system"), FALSE, FALSE, TRUE, FALSE)
        ELSE IF out = "data"
        THEN WriteResult(log2, q, UpsertRow(table, row), TRUE, TRUE, TRUE, FALSE, TRUE)
        ELSE WriteResult(log2, q, table, TRUE, TRUE, TRUE, FALSE, out = "dup")

\* a gateway that does not look at the speaking signal
store_conversation_message_NoDefer(log, q, table, speaking, i, pid, healthy, out) ==
    LET withId == WithId(log[i])
        log2 == [log EXCEPT ![i] = withId]
        row == Row(pid, Serialized(withId), withId.timestamp, UserEmail(withId))
    IN  IF ~healthy
        THEN WriteResult(log, add_to_retry_queue(q, session_id, pid, log[i]), table,
                         TRUE, FALSE, FALSE, TRUE, FALSE)
        ELSE IF out = "data"
        THEN WriteResult(log2, q, UpsertRow(table, row), TRUE, TRUE, TRUE, FALSE, TRUE)
        ELSE IF out = "dup"
        THEN WriteResult(log2, q, table, TRUE, TRUE, TRUE, FALSE, TRUE)
        ELSE WriteResult(log2, add_to_retry_queue(q, session_id, pid, withId), table,
                         TRUE, TRUE, TRUE, TRUE, FALSE)

\* i is the position in the Log of the dict the call was given; healthy is the
\* answer of check_supabase_health and out the outcome of the upsert
store_conversation_message(log, q, table, speaking, i, pid, healthy, out) ==
    LET conversation == log[i]
        withId == WithId(conversation)
        log2 == [log EXCEPT ![i] = withId]
        row == Row(pid, Serialized(withId), withId.timestamp, UserEmail(withId))
    IN  IF speaking /\ pid = "system"
        THEN WriteResult(log, add_to_retry_queue(q, session_id, pid, conversation), table,
                         FALSE, FALSE, FALSE, TRUE, FALSE)
        ELSE IF ~healthy
        THEN WriteResult(log, add_to_retry_queue(q, session_id, pid, conversation), table,
                         TRUE, FALSE, FALSE, TRUE, FALSE)
        ELSE IF out = "data"
        THEN WriteResult(log2, q, UpsertRow(table, row), TRUE, TRUE, TRUE, FALSE, TRUE)
        ELSE IF out = "dup"
        THEN WriteResult(log2, q, table, TRUE, TRUE, TRUE, FALSE, TRUE)
        ELSE WriteResult(log2, add_to_retry_queue(q, session_id, pid, withId), table,
                         TRUE, TRUE, TRUE, TRUE, FALSE)

(* ---- flush: store_full_conversation() ---- *)
Unstored(log) == {k \in 1..Len(log) : ~log[k].stored}

\* the loop at 639-683: every unstored message gets a message_id if it has none
AttachIds(log) ==
    [k \in 1..Len(log) |-> IF log[k].stored THEN log[k] ELSE WithId(log[k])]

FlushRow(msg) == Row(msg.role, Serialized(msg), msg.timestamp, UserEmail(msg))

RECURSIVE MessagesToStore(_)
MessagesToStore(log) ==
    IF log = <<>> THEN <<>>
    ELSE IF Head(log).stored THEN MessagesToStore(Tail(log))
    ELSE <<FlushRow(WithId(Head(log)))>> \o MessagesToStore(Tail(log))

Min(S) == CHOOSE x \in S : \A y \in S : x <= y

Matches(log, row) ==
    {k \in 1..Len(log) : log[k].timestamp = row.timestamp
                         /\ log[k].role = row.participant_id}

\* marking that toggles the flag instead of setting it
MarkStoredFlip(log, row) ==
    IF Matches(log, row) = {} THEN log
    ELSE [log EXCEPT ![Min(Matches(log, row))].stored = ~@]

\* marking that clears the flag of every other entry
MarkStoredOnly(log, row) ==
    IF Matches(log, row) = {} THEN log
    ELSE [k \in 1..Len(log) |->
            [log[k] EXCEPT !.stored = (k = Min(Matches(log, row)))]]

\* the inner loop at 740-749 (and 768-775): the first entry with the row's
\* timestamp and role gets stored = True
MarkStored(log, row) ==
    IF Matches(log, row) = {} THEN log
    ELSE [log EXCEPT ![Min(Matches(log, row))].stored = TRUE]

RECURSIVE MarkAll(_, _)
MarkAll(log, rows) ==
    IF rows = <<>> THEN log ELSE MarkAll(MarkStored(log, Head(rows)), Tail(rows))

Pick(rows, S) ==
    LET RECURSIVE P(_)
        P(k) == IF k > Len(rows) THEN <<>>
                ELSE (IF k \in S THEN <<rows[k]>> ELSE <<>>) \o P(k + 1)
    IN  P(1)

\* a slice that runs one row into the next group
Batch_Overlap(rows, i) ==
    SubSeq(rows, i, IF i + BATCH_SIZE < Len(rows) THEN i + BATCH_SIZE ELSE Len(rows))

Batch(rows, i) ==
    SubSeq(rows, i, IF i + BATCH_SIZE - 1 < Len(rows) THEN i + BATCH_SIZE - 1 ELSE Len(rows))

\* one pass of the loop body at 724-781 over one group: out is the outcome of
\* the group's upsert, ok the members whose single-row fallback returns data
FlushBatch(log, table, batch, out, ok) ==
    IF out = "data"
    THEN [log |-> MarkAll(log, batch), db |-> Upsert(table, batch),
          singles |-> 0, written |-> batch]
    ELSE IF out = "nodata"
    THEN [log |-> log, db |-> table, singles |-> 0, written |-> <<>>]
    ELSE [log |-> MarkAll(log, Pick(batch, ok)), db |-> Upsert(table, Pick(batch, ok)),
          singles |-> Len(batch), written |-> Pick(batch, ok)]

NoFlush == [active |-> FALSE, rows |-> <<>>, i |-> 1]

(* ---- drain: process_retry_queue(batch_size) ---- *)
RetryRow(item) == Row(item.participant_id, item.conversation, item.timestamp, "")

\* a bump by two
Bump_Twice(item) == [item EXCEPT !.retry_count = @ + 2]

Bump(item) == [item EXCEPT !.retry_count = @ + 1]

\* a limit that lets an item through once more
Exhausted_Late(item) == item.retry_count > MAX_RETRY_COUNT

Exhausted(item) == item.retry_count >= MAX_RETRY_COUNT

\* a push back that leaves the count of the item as it was
Requeued_NoBump(temp, a, b) ==
    LET RECURSIVE R(_)
        R(k) == IF k > b THEN <<>>
                ELSE (IF Exhausted(temp[k]) THEN <<>> ELSE <<temp[k]>>) \o R(k + 1)
    IN  R(a)

\* items of temp_queue[a..b] that are pushed back because the probe failed;
\* exhausted ones are skipped
Requeued(temp, a, b) ==
    LET RECURSIVE R(_)
        R(k) == IF k > b THEN <<>>
                ELSE (IF Exhausted(temp[k]) THEN <<>> ELSE <<Bump(temp[k])>>) \o R(k + 1)
    IN  R(a)

DroppedIn(temp, a, b) == {temp[k].timestamp : k \in {j \in a..b : Exhausted(temp[j])}}

NoDrain == [active |-> FALSE, temp |-> <<>>, k |-> 1, owner |-> "none"]

\* a batch taken from the tail of the queue
Take_Newest(q, n) == SubSeq(q, (IF n < Len(q) THEN Len(q) - n ELSE 0) + 1, Len(q))

Take(q, n) == SubSeq(q, 1, IF n < Len(q) THEN n ELSE Len(q))

Drop(q, n) == SubSeq(q, (IF n < Len(q) THEN n ELSE Len(q)) + 1, Len(q))

\* a push to the head of the queue
PushBack_Front(q, items) == items \o q

\* retry_queue.append(item) at 2559, 2593 and 2598
PushBack(q, items) == q \o items

\* One run of the loop at 2543-2601 from temp[k] to the next sleep(0.2) or to
\* the end: n items are handled without a sleep (exhausted, or probe
\* unhealthy), then temp[k+n], if there is one, is probed healthy and upserted
\* with outcome out.
DrainRun(temp, k, q, table, n, out, owner) ==
    LET last == k + n - 1
        q1 == PushBack(q, Requeued(temp, k, last))
        attempt == k + n <= Len(temp)
        item == temp[k + n]
        ok == attempt /\ out = "data"
        q2 == IF attempt /\ ~ok THEN PushBack(q1, <<Bump(item)>>) ELSE q1
        k2 == IF attempt THEN k + n + 1 ELSE k + n
    IN  [queue |-> q2,
         db |-> IF ok THEN UpsertRow(table, RetryRow(item)) ELSE table,
         drain |-> IF k2 > Len(temp) THEN NoDrain
                   ELSE [active |-> TRUE, temp |-> temp, k |-> k2, owner |-> owner],
         dropped |-> DroppedIn(temp, k, last),
         attempted |-> attempt,
         faulty |-> (attempt /\ ~ok) \/ Requeued(temp, k, last) # <<>>,
         written |-> IF ok THEN {Key(RetryRow(item))} ELSE {}]

\* which (n, out) the items and the environment allow from temp[k]
DrainChoice(temp, k, n, out) ==
    /\ n \in 0..(Len(temp) - k + 1)
    /\ \A j \in k..(k + n - 1) : Exhausted(temp[j]) \/ FALSE \in ProbeResults
    /\ k + n <= Len(temp) => /\ ~Exhausted(temp[k + n])
                             /\ TRUE \in ProbeResults
                             /\ out \in UpsertResults
    /\ k + n > Len(temp) => out = "data"


(* ---- observations (history the claims are stated over) ---- *)
ObsInit ==
    [sent |-> {},        \* upserts issued: the operation and whether a healthy probe preceded it in that operation
     written |-> {},     \* keys of the rows some upsert wrote
     dropped |-> {},     \* timestamps of the retry items dropped as exhausted
     calls |-> <<>>,     \* the writeOne calls in order (health-gate specification only)
     drains |-> <<>>,    \* the upserts of the drains in order (retry specification only)
     pops |-> <<>>,      \* the items the drains handled, in order (drain specifications only)
     taken |-> {},       \* timestamps of the items the drains took off the queue (drain specifications only)
     final |-> <<>>,     \* the flush and the drain teardown called, in order: the periodic
                         \* tasks still running and whether main's flush was still suspended
     groups |-> <<>>,    \* the group upserts of the flushes in order (flush specifications only)
     ticks |-> {},       \* the passes of the periodic saver (flush specifications only)
     overlap |-> FALSE,  \* a flush began while another one was suspended
     spoke |-> {},       \* the callers whose flush issued an upsert while the agent was speaking
     after |-> [idle |-> "none", disc |-> "none"],
                         \* what has followed the watchdog's and the disconnect handler's
                         \* termination message: "entered" once it is appended, "flushed"
                         \* once a store_full_conversation() call has been made since,
                         \* "drained" once a process_retry_queue() call has followed that
     failed |-> {},      \* timestamps of the messages whose writeOne call failed
     endHealthy |-> FALSE,  \* the store was back before the disconnect handler began
     health |-> <<>>,    \* the check_supabase_health() calls in order (health specification only)
     base |-> <<>>]      \* the Log and the table before the flushes (flush specification only)

ObsWrite(o, r, msg, pid, q, out) ==
    [o EXCEPT
       !.sent = @ \cup (IF r.upserted
                        THEN {[op |-> "writeOne", gated |-> r.probed /\ r.healthy]}
                        ELSE {}),
       !.written = @ \cup (IF out = "data" /\ r.upserted
                           THEN {<<session_id, msg.timestamp>>} ELSE {}),
       !.failed = @ \cup (IF r.probed /\ ~r.ret THEN {msg.timestamp} ELSE {})]

\* one writeOne call on log[i] as seen from outside: the probe's answer,
\* whether an upsert was issued and how it ended, what happened to the queue
\* (far from its capacity where calls are recorded) and the table, the stored
\* flag of the Log entry after the call, the result
ObsCall(o, r, q, table, i, pid, out, speaking) ==
    [o EXCEPT !.calls = Append(@, [probed |-> r.probed, healthy |-> r.healthy,
                                   speaking |-> speaking,
                                   upserted |-> r.upserted,
                                   out |-> IF r.upserted THEN out ELSE "none",
                                   ts |-> r.log[i].timestamp,
                                   pid |-> pid,
                                   queued |-> Len(r.queue) - Len(q),
                                   kept |-> SubSeq(r.queue, 1, Len(q)) = q,
                                   added |-> SubSeq(r.queue, Len(q) + 1, Len(r.queue)),
                                   wrote |-> r.db # table,
                                   stored |-> r.log[i].stored,
                                   ret |-> r.ret])]

ObsFlush(o, r) ==
    [o EXCEPT
       !.sent = @ \cup (IF r.batches > 0 THEN {[op |-> "flush", gated |-> FALSE]} ELSE {})
                  \cup (IF r.singles > 0 THEN {[op |-> "single", gated |-> FALSE]} ELSE {}),
       !.written = @ \cup KeysOf(r.written)]

TimesOf(rows) == [k \in 1..Len(rows) |-> rows[k].timestamp]

\* one group upsert of owner's flush as seen from outside, kept where the
\* Log before the flushes is kept: whether it is the flush's first group and
\* then the unstored entries of the Log the flush was called on, the rows of
\* the group, how the upsert ended, the single-row upserts that followed and
\* those of them that returned data, the entries flagged stored afterwards
ObsGroup(o, r, owner, first, log, batch, out) ==
    IF o.base = <<>> \/ r.batches = 0 THEN o
    ELSE [o EXCEPT !.groups = Append(@,
            [owner |-> owner, first |-> first,
             unstored |-> IF first THEN TimesOf(SelectSeq(log, LAMBDA m : ~m.stored))
                          ELSE <<>>,
             rows |-> TimesOf(batch), out |-> out,
             singles |-> r.singles,
             answered |-> IF r.singles > 0
                          THEN {r.written[k].timestamp : k \in 1..Len(r.written)}
                          ELSE {},
             stored |-> {r.log[k].timestamp : k \in (1..Len(r.log)) \ Unstored(r.log)},
             wrote |-> {<<r.written[k].timestamp, r.written[k].participant_id,
                          r.written[k].conversation.content>> : k \in 1..Len(r.written)}])]

\* one pass of the periodic saver as seen from outside, kept where the Log
\* before the flushes is kept: the speaking signal and the number of unstored
\* entries it found, and the flush tasks it created
ObsTick(o, speaking, log, launched) ==
    IF o.base = <<>> THEN o
    ELSE [o EXCEPT !.ticks = @ \cup {[speaking |-> speaking,
                                      unstored |-> Cardinality(Unstored(log)),
                                      launched |-> launched]}]

\* a store_full_conversation() call, a process_retry_queue() call, seen from
\* the termination messages appended before it; the flushes of the session
\* are one group long, so a flush that is called has run to its end
AfterFlush(a) == [c \in DOMAIN a |-> IF a[c] = "entered" THEN "flushed" ELSE a[c]]

AfterDrain(a) == [c \in DOMAIN a |-> IF a[c] = "flushed" THEN "drained" ELSE a[c]]

ObsDrain(o, r) ==
    [o EXCEPT
       !.sent = @ \cup (IF r.attempted THEN {[op |-> "drain", gated |-> TRUE]} ELSE {}),
       !.written = @ \cup r.written,
       !.dropped = @ \cup r.dropped]

\* the upsert of one drain run as seen from outside: the item, how the upsert
\* ended, and whether the item is back in the queue q2 and with which count
ObsDrainCall(o, r, item, out, q) ==
    IF ~r.attempted THEN o
    ELSE LET back == {k \in (Len(q) + 1)..Len(r.queue) :
                        r.queue[k].timestamp = item.timestamp}
         IN  [o EXCEPT !.drains = Append(@,
                 [ts |-> item.timestamp, out |-> out, before |-> item.retry_count,
                  requeued |-> back # {},
                  after |-> IF back = {} THEN item.retry_count
                            ELSE r.queue[CHOOSE k \in back : TRUE].retry_count,
                  wrote |-> r.written # {}])]

\* the handling of temp[j] in a drain run that began at temp[k] with queue q
\* and ended as r: its count before, what was done with it ("dropped" as
\* exhausted, "unhealthy" probe, upsert "failed" or "stored"), and, if it was
\* put back, its count there, the items ahead of it in the queue, and the
\* items of temp_queue still to come
PopEvent(temp, j, k, q, r, kind) ==
    LET back == kind \in {"unhealthy", "failed"}
        pos == Len(q) + Cardinality({i \in k..j : ~Exhausted(temp[i])})
    IN  [ts |-> temp[j].timestamp, before |-> temp[j].retry_count, kind |-> kind,
         back |-> back /\ r.queue[pos].timestamp = temp[j].timestamp,
         after |-> IF back THEN r.queue[pos].retry_count ELSE temp[j].retry_count,
         ahead |-> IF back THEN {r.queue[i].timestamp : i \in 1..(pos - 1)} ELSE {},
         tail |-> IF back THEN pos - Len(q) ELSE 0,
         rest |-> {temp[i].timestamp : i \in (j + 1)..Len(temp)},
         next |-> IF j < Len(temp) THEN temp[j + 1].timestamp ELSE 0]

\* the events of one drain run: n items handled without an upsert, then the
\* upsert of temp[k + n] if the run made one
ObsPops(o, temp, k, n, q, r) ==
    LET RECURSIVE E(_)
        E(j) == IF j > k + n \/ j > Len(temp) THEN <<>>
                ELSE IF j = k + n
                THEN (IF r.attempted
                      THEN <<PopEvent(temp, j, k, q, r,
                                      IF r.written # {} THEN "stored" ELSE "failed")>>
                      ELSE <<>>)
                ELSE <<PopEvent(temp, j, k, q, r,
                                IF Exhausted(temp[j]) THEN "dropped" ELSE "unhealthy")>>
                     \o E(j + 1)
    IN  [o EXCEPT !.pops = @ \o E(k)]

(* ---- flush, as the steps between its sleeps ---- *)
FlushOwners == {"main", "disc", "saver", "asst"}

OkChoices(batch, out) ==
    IF out \in {"dup", "error"} THEN SUBSET (1..Len(batch)) ELSE {{}}

\* store_full_conversation() from its call to its first sleep(0.5)
FlushStart(log, table, out, ok) ==
    IF Unstored(log) = {}
    THEN [log |-> log, db |-> table, flush |-> NoFlush,
          batches |-> 0, singles |-> 0, written |-> <<>>]
    ELSE LET rows == MessagesToStore(log)
             b == FlushBatch(AttachIds(log), table, Batch(rows, 1), out, ok)
         IN  [log |-> b.log, db |-> b.db,
              flush |-> IF BATCH_SIZE < Len(rows)
                        THEN [active |-> TRUE, rows |-> rows, i |-> 1 + BATCH_SIZE]
                        ELSE NoFlush,
              batches |-> 1, singles |-> b.singles, written |-> b.written]

\* store_full_conversation() from one sleep(0.5) to the next
FlushNext(log, table, f, out, ok) ==
    LET b == FlushBatch(log, table, Batch(f.rows, f.i), out, ok)
    IN  [log |-> b.log, db |-> b.db,
         flush |-> IF f.i + BATCH_SIZE > Len(f.rows) THEN NoFlush
                   ELSE [f EXCEPT !.i = @ + BATCH_SIZE],
         batches |-> 1, singles |-> b.singles, written |-> b.written]

(* ---- initial state: the module globals at import, Supabase initialised ---- *)
Init ==
    /\ conversation_history = <<>>
    /\ retry_queue = <<>>
    /\ db = {}
    /\ is_speaking = FALSE
    /\ faults = MaxFaults
    /\ clock = 0
    /\ mainPc = "init"
    /\ taskPc = [saver |-> "none", retry |-> "none", checker |-> "none"]
    /\ discPc = "none"
    /\ writeTasks = {}
    /\ flush = [o \in FlushOwners |-> NoFlush]
    /\ drain = NoDrain
    /\ obs = ObsInit

\* the clock value a new timestamp takes: a session's messages are created
\* at distinct times
Times == {clock + 1}

\* get_current_timestamp(): ISO-8601 with the "+00:00" offset
get_current_timestamp(t) == t

\* datetime.utcnow().isoformat(): ISO-8601 without an offset, so a string that
\* never equals one made by get_current_timestamp()
utcnow_isoformat(t) == 100 + t

(* ---- the actions ---- *)
\* the answers a call really asks for: no second probe after a first that
\* succeeded, no upsert outcome when no upsert is issued
WriteChoice(speaking, pid, probe, reinit, out) ==
    /\ probe => reinit
    /\ ((speaking /\ pid = "system") \/ ~check_supabase_health(probe, reinit))
           => (out = "data" /\ probe = reinit)

\* an inline or spawned store_conversation_message call on log[i]; with
\* history set the call is also appended to the observed calls
DoWriteObs(log, i, pid, speaking, history) ==
    \E probe \in ProbeResults, reinit \in ProbeResults, out \in UpsertResults :
        LET r == store_conversation_message(log, retry_queue, db, speaking, i, pid,
                                            check_supabase_health(probe, reinit), out)
        IN  /\ WriteChoice(speaking, pid, probe, reinit, out)
            /\ faults' = Charge(~probe \/ out # "data")
            /\ conversation_history' = r.log
            /\ retry_queue' = r.queue
            /\ db' = r.db
            /\ obs' = IF history
                      THEN ObsCall(ObsWrite(obs, r, log[i], pid, retry_queue, out), r, retry_queue, db,
                                   i, pid, out, speaking)
                      ELSE ObsWrite(obs, r, log[i], pid, retry_queue, out)

DoWrite(log, i, pid, speaking) == DoWriteObs(log, i, pid, speaking, FALSE)

\* a store_full_conversation call by owner o on log; launched is the number
\* of flush tasks the caller created for it (0 where the caller awaits it)
\* and what the call adds to the record of teardown
DoFlushStartNote(o, log, launched, note) ==
    \E out \in UpsertResults :
      \E ok \in OkChoices(Batch(MessagesToStore(log), 1), out) :
        LET r == FlushStart(log, db, out, ok)
        IN  /\ faults' = Charge(out # "data")
            /\ conversation_history' = r.log
            /\ db' = r.db
            /\ flush' = [flush EXCEPT ![o] = r.flush]
            /\ obs' = [ObsGroup(ObsFlush(IF launched > 0
                                          THEN ObsTick(obs, is_speaking, log, launched)
                                          ELSE obs, r),
                                 r, o, TRUE, log,
                                 Batch(MessagesToStore(log), 1), out) EXCEPT
                         !.overlap = @ \/ \E p \in FlushOwners \ {o} : flush[p].active,
                         !.spoke = @ \cup (IF is_speaking /\ r.batches > 0 THEN {o} ELSE {}),
                         !.after = AfterFlush(@),
                         !.final = @ \o note]

DoFlushStartObs(o, log, launched) == DoFlushStartNote(o, log, launched, <<>>)

DoFlushStart(o, log) == DoFlushStartObs(o, log, 0)

\* a process_retry_queue(batch) call by owner; with history set its upsert is
\* also appended to the observed drains
DoDrainStartObs(owner, batch, history) ==
    \E n \in 0..batch, out \in Outcomes :
        /\ DrainChoice(Take(retry_queue, batch), 1, n, out)
        /\ LET temp == Take(retry_queue, batch)
               rest == Drop(retry_queue, batch)
               r == DrainRun(temp, 1, rest, db, n, out, owner)
           IN  /\ faults' = Charge(r.faulty)
               /\ retry_queue' = r.queue
               /\ db' = r.db
               /\ drain' = r.drain
               /\ obs' = [(IF history
                            THEN ObsPops(ObsDrainCall(ObsDrain(obs, r), r,
                                                      temp[IF r.attempted THEN 1 + n ELSE 1],
                                                      out, rest),
                                         temp, 1, n, rest, r)
                            ELSE ObsDrain(obs, r))
                             EXCEPT !.after = AfterDrain(@),
                                    !.final = IF owner = "main"
                                              THEN Append(@, [op |-> "drain",
                                                              running |-> {t \in DOMAIN taskPc :
                                                                             taskPc[t] = "run"},
                                                              flushing |-> flush["main"].active,
                                                              took |-> temp,
                                                              left |-> rest,
                                                              at |-> Len(obs.pops)])
                                              ELSE @,
                                    !.taken = @ \cup (IF history
                                                      THEN {temp[j].timestamp : j \in 1..Len(temp)}
                                                      ELSE {})]

DoDrainStart(owner, batch) == DoDrainStartObs(owner, batch, FALSE)

\* run_multimodal_agent, 1435-1464: the session-start marker
MainStart ==
    /\ mainPc = "init"
    /\ \E t \in Times :
         /\ clock' = t
         /\ DoWrite(<<Message("system", "Session started", get_current_timestamp(t), NoId)>>, 1, "system", FALSE)
    /\ mainPc' = "started"
    /\ UNCHANGED <<is_speaking, taskPc, discPc, writeTasks, flush, drain>>

\* run_multimodal_agent, 1531-1718: the periodic tasks are created, the Log is
\* rebound to a new list holding the context message
MainContext ==
    /\ mainPc = "started"
    /\ \E t \in Times :
         /\ clock' = t
         /\ DoWrite(<<Message("system", "User context", get_current_timestamp(t), NoId)>>, 1, "system", FALSE)
    /\ taskPc' = [saver |-> "run", retry |-> "run", checker |-> "run"]
    /\ mainPc' = "context"
    /\ UNCHANGED <<is_speaking, discPc, writeTasks, flush, drain>>

\* say_and_store, 2164-2218: the welcome message is appended, its write is
\* spawned and playback starts
MainSay ==
    /\ mainPc = "context"
    /\ \E t \in Times :
         /\ clock' = t
         /\ conversation_history' =
                Append(conversation_history, Message("assistant", "welcome", get_current_timestamp(t), OwnId))
    /\ writeTasks' = writeTasks \cup
                       {[idx |-> Len(conversation_history) + 1, pid |-> "assistant"]}
    /\ is_speaking' = TRUE
    /\ mainPc' = "speaking"
    /\ UNCHANGED <<retry_queue, db, faults, taskPc, discPc, flush, drain, obs>>

\* say_and_store, 2219-2243: playback ended (or failed); the storage task,
\* scheduled before playback was awaited, has run
MainSayEnd ==
    /\ mainPc = "speaking"
    /\ \A w \in writeTasks : w.pid # "assistant"
    /\ is_speaking' = FALSE
    /\ mainPc' = "said"
    /\ UNCHANGED <<conversation_history, retry_queue, db, faults, clock, taskPc,
                   discPc, writeTasks, flush, drain, obs>>

\* run_multimodal_agent, 2273: ensure_storage_completed()
MainEnsure ==
    /\ mainPc = "said"
    /\ DoFlushStart("main", conversation_history)
    /\ mainPc' = "ensure"
    /\ UNCHANGED <<retry_queue, is_speaking, clock, taskPc, discPc,
                   writeTasks, drain>>

Cancelled(pc) == IF pc = "run" THEN "cancelled" ELSE pc

\* a teardown that flushes without cancelling the periodic tasks
MainTeardown_NoCancel ==
    /\ mainPc = "ensure"
    /\ ~flush["main"].active
    /\ taskPc' = taskPc
    /\ drain' = drain
    /\ DoFlushStartNote("main", conversation_history, 0,
                        <<[op |-> "flush",
                           running |-> {t \in DOMAIN taskPc : taskPc'[t] = "run"},
                           flushing |-> FALSE,
                           waits |-> Unstored(conversation_history) # {}]>>)
    /\ mainPc' = "finalflush"
    /\ UNCHANGED <<retry_queue, is_speaking, clock, discPc, writeTasks>>

\* a teardown whose cancellation does not reach the drain the retry processor
\* is awaiting
MainTeardown_KeepDrain ==
    /\ mainPc = "ensure"
    /\ ~flush["main"].active
    /\ taskPc' = [n \in DOMAIN taskPc |-> Cancelled(taskPc[n])]
    /\ drain' = drain
    /\ DoFlushStartNote("main", conversation_history, 0,
                        <<[op |-> "flush",
                           running |-> {t \in DOMAIN taskPc : taskPc'[t] = "run"},
                           flushing |-> FALSE,
                           waits |-> Unstored(conversation_history) # {}]>>)
    /\ mainPc' = "finalflush"
    /\ UNCHANGED <<retry_queue, is_speaking, clock, discPc, writeTasks>>

\* run_multimodal_agent, 2275-2296: the periodic tasks are cancelled (a drain
\* the retry processor is awaiting goes with it) and the final flush starts
MainTeardown ==
    /\ mainPc = "ensure"
    /\ ~flush["main"].active
    /\ taskPc' = [n \in DOMAIN taskPc |-> Cancelled(taskPc[n])]
    /\ drain' = NoDrain
    /\ DoFlushStartNote("main", conversation_history, 0,
                        <<[op |-> "flush",
                           running |-> {t \in DOMAIN taskPc : taskPc'[t] = "run"},
                           flushing |-> FALSE,
                           waits |-> Unstored(conversation_history) # {}]>>)
    /\ mainPc' = "finalflush"
    /\ UNCHANGED <<retry_queue, is_speaking, clock, discPc, writeTasks>>

\* a final drain that takes the whole queue
MainFinalDrainObs_Whole(history) ==
    /\ mainPc = "finalflush"
    /\ ~flush["main"].active
    /\ IF retry_queue # <<>>
       THEN DoDrainStartObs("main", MAX_RETRY_QUEUE_SIZE, history)
       ELSE UNCHANGED <<retry_queue, db, drain, obs, faults>>
    /\ mainPc' = "finaldrain"
    /\ UNCHANGED <<conversation_history, is_speaking, clock, taskPc, discPc,
                   writeTasks, flush>>

\* run_multimodal_agent, 2300-2305: the final process_retry_queue()
MainFinalDrainObs(history) ==
    /\ mainPc = "finalflush"
    /\ ~flush["main"].active
    /\ IF retry_queue # <<>>
       THEN DoDrainStartObs("main", DRAIN_DEFAULT_BATCH, history)
       ELSE UNCHANGED <<retry_queue, db, drain, obs, faults>>
    /\ mainPc' = "finaldrain"
    /\ UNCHANGED <<conversation_history, is_speaking, clock, taskPc, discPc,
                   writeTasks, flush>>

MainFinalDrain == MainFinalDrainObs(FALSE)

\* run_multimodal_agent, 2307-2308: shutdown complete
MainDone ==
    /\ mainPc = "finaldrain"
    /\ ~drain.active
    /\ mainPc' = "done"
    /\ UNCHANGED <<conversation_history, retry_queue, db, is_speaking, faults, clock,
                   taskPc, discPc, writeTasks, flush, drain, obs>>

\* a task created by asyncio.create_task(store_conversation_message(...)) runs
WriteTask ==
    \E w \in writeTasks :
        /\ DoWrite(conversation_history, w.idx, w.pid, is_speaking)
        /\ writeTasks' = writeTasks \ {w}
        /\ UNCHANGED <<is_speaking, clock, mainPc, taskPc, discPc, flush, drain>>

\* a suspended store_full_conversation resumes after its sleep(0.5)
FlushStep ==
    \E o \in FlushOwners :
        /\ flush[o].active
        /\ \E out \in UpsertResults :
             \E ok \in OkChoices(Batch(flush[o].rows, flush[o].i), out) :
               LET r == FlushNext(conversation_history, db, flush[o], out, ok)
               IN  /\ faults' = Charge(out # "data")
                   /\ conversation_history' = r.log
                   /\ db' = r.db
                   /\ flush' = [flush EXCEPT ![o] = r.flush]
                   /\ obs' = ObsGroup(ObsFlush(obs, r), r, o, FALSE, conversation_history,
                                       Batch(flush[o].rows, flush[o].i), out)
        /\ UNCHANGED <<retry_queue, is_speaking, clock, mainPc, taskPc, discPc,
                       writeTasks, drain>>

\* a suspended process_retry_queue resumes after its sleep(0.2)
DrainStepObs(history) ==
    /\ drain.active
    /\ \E n \in 0..DRAIN_DEFAULT_BATCH, out \in Outcomes :
        /\ DrainChoice(drain.temp, drain.k, n, out)
        /\ LET r == DrainRun(drain.temp, drain.k, retry_queue, db, n, out, drain.owner)
           IN  /\ faults' = Charge(r.faulty)
               /\ retry_queue' = r.queue
               /\ db' = r.db
               /\ drain' = r.drain
               /\ obs' = IF history
                         THEN ObsPops(ObsDrainCall(ObsDrain(obs, r), r,
                                          drain.temp[IF r.attempted THEN drain.k + n ELSE drain.k],
                                          out, retry_queue),
                                      drain.temp, drain.k, n, retry_queue, r)
                         ELSE ObsDrain(obs, r)
    /\ UNCHANGED <<conversation_history, is_speaking, clock, mainPc, taskPc,
                   discPc, writeTasks, flush>>

DrainStep == DrainStepObs(FALSE)

\* the handlers are registered and the event loop runs them once
\* run_multimodal_agent has reached its first suspension in say_and_store
HandlersLive == mainPc \notin {"init", "started", "context"} /\ discPc # "done"

\* on_user_speech_committed, 1784-1858, while the Log is shorter than limit
UserSpeechUpTo(limit) ==
    /\ HandlersLive
    /\ Len(conversation_history) < limit
    /\ \E t \in Times :
         /\ clock' = t
         /\ conversation_history' =
                Append(conversation_history,
                       Message("user", "speech", get_current_timestamp(t), OwnId))
    /\ writeTasks' = writeTasks \cup
                       {[idx |-> Len(conversation_history) + 1, pid |-> "user"]}
    /\ UNCHANGED <<retry_queue, db, is_speaking, faults, mainPc, taskPc, discPc,
                   flush, drain, obs>>

UserSpeech == UserSpeechUpTo(MaxLog)

IsDuplicate(log, content) ==
    \E k \in 1..Len(log) : log[k].role = "assistant" /\ log[k].content = content

\* store_assistant_message, 2649-2672, run as a task by the assistant events
AssistantMessage ==
    /\ HandlersLive
    /\ Len(conversation_history) < MaxLog
    /\ ~flush["asst"].active
    /\ ~IsDuplicate(conversation_history, "reply")
    /\ \E t \in Times :
         /\ clock' = t
         /\ DoFlushStart("asst",
                Append(conversation_history,
                       Message("assistant", "reply", utcnow_isoformat(t), NoId)))
    /\ UNCHANGED <<retry_queue, is_speaking, mainPc, taskPc, discPc,
                   writeTasks, drain>>

\* async_disconnect_tasks, 2101-2130: the end message, its write and the first
\* store_full_conversation up to its first sleep
Disconnect ==
    /\ HandlersLive
    /\ discPc = "none"
    /\ Len(conversation_history) < MaxLog
    /\ \E t \in Times, probe \in ProbeResults, reinit \in ProbeResults,
          out \in UpsertResults, fout \in UpsertResults :
         LET m == Message("system", "Call ended", get_current_timestamp(t), OwnId)
             log == Append(conversation_history, m)
             w == store_conversation_message(log, retry_queue, db, is_speaking,
                      Len(log), "system", check_supabase_health(probe, reinit), out)
         IN  /\ WriteChoice(is_speaking, "system", probe, reinit, out)
             /\ \E ok \in OkChoices(Batch(MessagesToStore(w.log), 1), fout) :
                  LET r == FlushStart(w.log, w.db, fout, ok)
                  IN  /\ clock' = t
                      /\ faults' = Charge(~probe \/ out # "data" \/ fout # "data")
                      /\ conversation_history' = r.log
                      /\ retry_queue' = w.queue
                      /\ db' = r.db
                      /\ flush' = [flush EXCEPT !["disc"] = r.flush]
                      /\ obs' = [ObsFlush(ObsWrite(obs, w, m, "system", retry_queue, out), r)
                                   EXCEPT !.endHealthy = storeUp,
                                          !.spoke = @ \cup (IF is_speaking /\ r.batches > 0
                                                            THEN {"disc"} ELSE {}),
                                          !.after = [AfterFlush(@) EXCEPT !.disc = "flushed"]]
    /\ discPc' = "flush1"
    /\ UNCHANGED <<is_speaking, mainPc, taskPc, writeTasks, drain>>

\* async_disconnect_tasks, 2133: ensure_storage_completed()
DisconnectEnsure ==
    /\ discPc = "flush1"
    /\ ~flush["disc"].active
    /\ DoFlushStart("disc", conversation_history)
    /\ discPc' = "flush2"
    /\ UNCHANGED <<retry_queue, is_speaking, clock, mainPc, taskPc,
                   writeTasks, drain>>

\* async_disconnect_tasks, 2136-2152: the counts are logged, the room is left
DisconnectDone ==
    /\ discPc = "flush2"
    /\ ~flush["disc"].active
    /\ discPc' = "done"
    /\ UNCHANGED <<conversation_history, retry_queue, db, is_speaking, faults, clock,
                   mainPc, taskPc, writeTasks, flush, drain, obs>>

\* a saver that creates its flush task without counting the unstored entries
SaverTick_Always ==
    /\ taskPc.saver = "run"
    /\ IF is_speaking
       THEN /\ obs' = ObsTick(obs, is_speaking, conversation_history, 0)
            /\ UNCHANGED <<conversation_history, db, flush, faults>>
       ELSE /\ ~flush["saver"].active
            /\ DoFlushStartObs("saver", conversation_history, 1)
    /\ UNCHANGED <<retry_queue, is_speaking, clock, mainPc, taskPc, discPc,
                   writeTasks, drain>>

\* periodic_conversation_saver, 1535-1566: one pass after its sleep(60); the
\* flush task it creates (1559) runs once the saver is back in its sleep, and
\* the saver's previous flush, two groups long at most here, has ended by then
SaverTick ==
    /\ taskPc.saver = "run"
    /\ IF is_speaking \/ Unstored(conversation_history) = {}
       THEN /\ obs' = ObsTick(obs, is_speaking, conversation_history, 0)
            /\ UNCHANGED <<conversation_history, db, flush, faults>>
       ELSE /\ ~flush["saver"].active
            /\ DoFlushStartObs("saver", conversation_history, 1)
    /\ UNCHANGED <<retry_queue, is_speaking, clock, mainPc, taskPc, discPc,
                   writeTasks, drain>>

\* periodic_retry_processor, 2608-2641: one pass after its sleep(180); the
\* task awaits the drain, so it makes no pass while its drain runs
\* a retry processor that does not look at the speaking signal
RetryTickObs_Eager(history) ==
    /\ taskPc.retry = "run"
    /\ ~drain.active
    /\ IF retry_queue = <<>>
       THEN UNCHANGED <<retry_queue, db, drain, obs, faults>>
       ELSE \E connected \in ProbeResults :
              IF connected
              THEN DoDrainStartObs("periodic", DRAIN_PERIODIC_BATCH, history)
              ELSE /\ faults' = Charge(TRUE)
                   /\ UNCHANGED <<retry_queue, db, drain, obs>>
    /\ UNCHANGED <<conversation_history, is_speaking, clock, mainPc, taskPc,
                   discPc, writeTasks, flush>>

RetryTickObs(history) ==
    /\ taskPc.retry = "run"
    /\ ~drain.active
    /\ IF retry_queue = <<>> \/ is_speaking
       THEN UNCHANGED <<retry_queue, db, drain, obs, faults>>
       ELSE \E connected \in ProbeResults :
              IF connected
              THEN DoDrainStartObs("periodic", DRAIN_PERIODIC_BATCH, history)
              ELSE /\ faults' = Charge(TRUE)
                   /\ UNCHANGED <<retry_queue, db, drain, obs>>
    /\ UNCHANGED <<conversation_history, is_speaking, clock, mainPc, taskPc,
                   discPc, writeTasks, flush>>

RetryTick == RetryTickObs(FALSE)

\* check_connection_status, 1467-1528: one pass after its sleep(120); idle says
\* whether more than 300 s have passed since the last activity seen
CheckerTick ==
    /\ taskPc.checker = "run"
    /\ \E idle \in BOOLEAN :
         IF ~idle
         THEN UNCHANGED <<conversation_history, clock, writeTasks, taskPc, obs>>
         ELSE \E t \in Times :
                /\ Len(conversation_history) < MaxLog
                /\ clock' = t
                /\ conversation_history' =
                       Append(conversation_history,
                              Message("system", "inactivity", get_current_timestamp(t), NoId))
                /\ writeTasks' = writeTasks \cup
                       {[idx |-> Len(conversation_history) + 1, pid |-> "system"]}
                /\ taskPc' = [taskPc EXCEPT !.checker = "done"]
                /\ obs' = [obs EXCEPT !.after.idle = "entered"]
    /\ UNCHANGED <<retry_queue, db, is_speaking, faults, mainPc, discPc, flush, drain>>

\* the environment: from here on the remote store answers every call
StoreRecovers ==
    /\ ~storeUp
    /\ faults' = 0
    /\ UNCHANGED <<conversation_history, retry_queue, db, is_speaking, clock, mainPc,
                   taskPc, discPc, writeTasks, flush, drain, obs>>

\* A Log of fewer than BATCH_SIZE unstored messages is flushed in one group,
\* so no flush of this session is ever suspended; FlushStep is followed in
\* SpecFlush.
Next ==
    \/ MainStart
    \/ MainContext
    \/ MainSay
    \/ MainSayEnd
    \/ MainEnsure
    \/ MainTeardown
    \/ MainFinalDrain
    \/ MainDone
    \/ WriteTask
    \/ DrainStep
    \/ UserSpeech
    \/ AssistantMessage
    \/ Disconnect
    \/ DisconnectEnsure
    \/ DisconnectDone
    \/ SaverTick
    \/ RetryTick
    \/ CheckerTick
    \/ StoreRecovers

Spec == Init /\ [][Next]_vars

(***************************************************************************)
(* The retry queue at its capacity: a session in which the store has been  *)
(* failing for a long time.  The start marker, the context message and the *)
(* welcome message were written; every one of the n user messages after    *)
(* them failed its write and sits in the queue, oldest first.              *)
(***************************************************************************)
QueueLog0(n) ==
    [k \in 1..(n + 2) |->
        IF k = 1 THEN Message("system", "User context", get_current_timestamp(2), OwnId)
        ELSE IF k = 2 THEN Message("assistant", "welcome", get_current_timestamp(3), OwnId)
        ELSE Message("user", "speech", get_current_timestamp(k + 1), OwnId)]

QueueDb0 ==
    {Row("system", Serialized(Message("system", "Session started", get_current_timestamp(1), OwnId)),
         get_current_timestamp(1), ""),
     Row("system", Serialized(QueueLog0(0)[1]), get_current_timestamp(2), ""),
     Row("assistant", Serialized(QueueLog0(0)[2]), get_current_timestamp(3), "")}

InitQueue ==
    \E n \in {MAX_RETRY_QUEUE_SIZE} :
        /\ conversation_history = QueueLog0(n)
        /\ retry_queue = [k \in 1..n |-> RetryItem(session_id, "user", QueueLog0(n)[k + 2])]
        /\ db = QueueDb0
        /\ is_speaking = FALSE
        /\ faults = MaxQueueFaults
        /\ clock = n + 3
        /\ mainPc = "said"
        /\ taskPc = [saver |-> "run", retry |-> "run", checker |-> "run"]
        /\ discPc = "none"
        /\ writeTasks = {}
        /\ flush = [o \in FlushOwners |-> NoFlush]
        /\ drain = NoDrain
        /\ obs = [ObsInit EXCEPT !.sent = {[op |-> "writeOne", gated |-> TRUE]},
                                 !.written = {Key(r) : r \in QueueDb0}]

QueueSpeech == UserSpeechUpTo(MAX_RETRY_QUEUE_SIZE + 2 + MaxQueueOps)

\* the periodic drain, followed when the queue is at its capacity
QueueRetryTick ==
    /\ Len(retry_queue) >= MAX_RETRY_QUEUE_SIZE
    /\ RetryTick

NextQueue ==
    \/ QueueSpeech
    \/ WriteTask
    \/ QueueRetryTick
    \/ DrainStep

SpecQueue == InitQueue /\ [][NextQueue]_vars

(***************************************************************************)
(* Claims about the retry queue                                            *)
(***************************************************************************)

\* C1: after every enqueue and every drain step the retry queue holds at
\* most MAX_RETRY_QUEUE_SIZE items, also when enqueues interleave with a
\* suspended drain that then pushes failed items back.
C1_QueueBounded == Len(retry_queue) <= MAX_RETRY_QUEUE_SIZE

\* a write that ended by enqueueing its message
Enqueued(w) == w \in writeTasks /\ w \notin writeTasks' /\ retry_queue' # retry_queue

\* C8: an enqueue onto a queue of MAX_RETRY_QUEUE_SIZE items discards exactly
\* the oldest item and keeps the other items, in order, followed by the new
\* one with retry_count 0.
C8_FullEnqueueDropsOldest ==
    [][\A w \in writeTasks :
         (Enqueued(w) /\ Len(retry_queue) = MAX_RETRY_QUEUE_SIZE) =>
            /\ Len(retry_queue') = MAX_RETRY_QUEUE_SIZE
            /\ \A k \in 1..(MAX_RETRY_QUEUE_SIZE - 1) : retry_queue'[k] = retry_queue[k + 1]
            /\ retry_queue'[MAX_RETRY_QUEUE_SIZE] =
                 RetryItem(session_id, w.pid, conversation_history[w.idx])]_vars

\* after MAX_RETRY_QUEUE_SIZE + 1 enqueues of distinct messages and no drain:
\* the queue is full, the first message is gone, the last one is at the end
C8_Witness ==
    /\ ~drain.active /\ obs.dropped = {} /\ db = QueueDb0
    /\ Len(retry_queue) = MAX_RETRY_QUEUE_SIZE
    /\ retry_queue[1].timestamp = get_current_timestamp(5)
    /\ retry_queue[MAX_RETRY_QUEUE_SIZE].timestamp =
         get_current_timestamp(MAX_RETRY_QUEUE_SIZE + 4)
    /\ \A k \in 1..Len(retry_queue) :
         retry_queue[k].timestamp # get_current_timestamp(4)

(***************************************************************************)
(* Claims about the session                                                *)
(***************************************************************************)

\* C4: every key has exactly one remote record however often and by whichever
\* of writeOne, flush and drain it was upserted; the number of remote records
\* is the number of distinct keys written.
C4_OneRecordPerKey ==
    /\ \A r1, r2 \in db : Key(r1) = Key(r2) => r1 = r2
    /\ {Key(r) : r \in db} = obs.written
    /\ Cardinality(db) = Cardinality(obs.written)

\* a key flush wrote (its entry is marked) that the drain wrote again
C4_Witness ==
    \E r \in db, k \in 1..Len(conversation_history) :
        /\ r.conversation.meta = "none"
        /\ conversation_history[k].timestamp = r.timestamp
        /\ conversation_history[k].stored
        /\ Cardinality(db) >= 2

\* the same message before and after a step
SameEntry(m, n) == m.role = n.role /\ m.content = n.content /\ m.timestamp = n.timestamp

\* C6: the stored flag of a message, once true, is true after every step.
C6_StoredStaysTrue ==
    [][\A k \in 1..Len(conversation_history), j \in 1..Len(conversation_history') :
          (SameEntry(conversation_history[k], conversation_history'[j])
             /\ conversation_history[k].stored)
          => conversation_history'[j].stored]_vars

\* an entry marked by one flush, still marked after a later message was
\* appended and marked by another flush and the session was torn down
C6_Witness ==
    /\ mainPc = "done"
    /\ \E j, k \in 1..Len(conversation_history) :
         /\ j < k
         /\ conversation_history[j].stored /\ conversation_history[k].stored
         /\ conversation_history[k].role = "user"

\* C7: the Log only grows at its end: every entry stays at its position with
\* its role, content and timestamp; only the stored flag and a missing
\* message_id change.
C7_LogAppendOnly ==
    [][/\ Len(conversation_history') >= Len(conversation_history)
       /\ \A k \in 1..Len(conversation_history) :
            /\ SameEntry(conversation_history[k], conversation_history'[k])
            /\ conversation_history[k].message_id \in
                 {NoId, conversation_history'[k].message_id}]_vars

\* C10: every upsert issued by writeOne, flush (group and single fallbacks)
\* and drain follows a health probe that answered healthy in the same
\* operation.
C10_UpsertsGated == \A s \in obs.sent : s.gated

(***************************************************************************)
(* The health gate of writeOne: a session after its welcome message, whose *)
(* user messages are written one call after the other; every call is       *)
(* recorded in obs.calls.                                                   *)
(***************************************************************************)
InitGate ==
    /\ conversation_history = QueueLog0(0)
    /\ retry_queue = <<>>
    /\ db = QueueDb0
    /\ is_speaking = FALSE
    /\ faults = MaxFaults
    /\ clock = 3
    /\ mainPc = "said"
    /\ taskPc = [saver |-> "run", retry |-> "run", checker |-> "run"]
    /\ discPc = "none"
    /\ writeTasks = {}
    /\ flush = [o \in FlushOwners |-> NoFlush]
    /\ drain = NoDrain
    /\ obs = [ObsInit EXCEPT !.sent = {[op |-> "writeOne", gated |-> TRUE]},
                             !.written = {Key(r) : r \in QueueDb0}]

GateSpeech == UserSpeechUpTo(2 + MaxGateCalls)

GateWrite ==
    \E w \in writeTasks :
        /\ DoWriteObs(conversation_history, w.idx, w.pid, is_speaking, TRUE)
        /\ writeTasks' = writeTasks \ {w}
        /\ UNCHANGED <<is_speaking, clock, mainPc, taskPc, discPc, flush, drain>>

NextGate ==
    \/ GateSpeech
    \/ GateWrite
    \/ StoreRecovers

SpecGate == InitGate /\ [][NextGate]_vars

\* C9: a writeOne call whose probe answers unhealthy issues no upsert,
\* enqueues the message and returns failure; a call whose probe answers
\* healthy issues the upsert in that call.
C9_HealthGate ==
    \A k \in 1..Len(obs.calls) :
        LET c == obs.calls[k]
        IN  /\ c.probed
            /\ ~c.healthy => (~c.upserted /\ ~c.wrote /\ c.queued = 1 /\ ~c.ret)
            /\ c.healthy => c.upserted

\* probes answering unhealthy, unhealthy, healthy: two calls enqueue, the
\* third writes
C9_Witness ==
    /\ Len(obs.calls) = 3
    /\ ~obs.calls[1].healthy /\ obs.calls[1].queued = 1 /\ ~obs.calls[1].upserted
    /\ ~obs.calls[2].healthy /\ obs.calls[2].queued = 1 /\ ~obs.calls[2].upserted
    /\ obs.calls[3].healthy /\ obs.calls[3].upserted /\ obs.calls[3].wrote
    /\ obs.calls[3].ret /\ obs.calls[3].queued = 0
    /\ Len(retry_queue) = 2

(***************************************************************************)
(* Flushes of a long Log: a session after its welcome message in which the *)
(* writes of n user messages failed while the store was away; the store is *)
(* back.  The periodic saver and ensure_storage_completed() both flush.    *)
(***************************************************************************)
FlushLog0(n, S) ==
    [k \in 1..(n + 2) |-> [QueueLog0(n)[k] EXCEPT !.stored = (k \in S)]]

InitFlush ==
    \E n \in (BATCH_SIZE - 2)..(BATCH_SIZE + MaxFlushExtra), S \in SUBSET {1, 2} :
        /\ conversation_history = FlushLog0(n, S)
        /\ retry_queue = [k \in 1..n |-> RetryItem(session_id, "user", QueueLog0(n)[k + 2])]
        /\ db = QueueDb0
        /\ is_speaking = FALSE
        /\ faults = 0
        /\ clock = n + 3
        /\ mainPc = "said"
        /\ taskPc = [saver |-> "run", retry |-> "run", checker |-> "run"]
        /\ discPc = "none"
        /\ writeTasks = {}
        /\ flush = [o \in FlushOwners |-> NoFlush]
        /\ drain = NoDrain
        /\ obs = [ObsInit EXCEPT !.sent = {[op |-> "writeOne", gated |-> TRUE]},
                                 !.written = {Key(r) : r \in QueueDb0},
                                 !.base = <<FlushLog0(n, S), QueueDb0>>]

NextFlush ==
    \/ SaverTick
    \/ MainEnsure
    \/ FlushStep

SpecFlush == InitFlush /\ [][NextFlush]_vars

\* one store_full_conversation() run alone to its end, every upsert answered
RECURSIVE FlushRest(_, _, _)
FlushRest(log, table, f) ==
    IF ~f.active THEN [log |-> log, db |-> table]
    ELSE LET r == FlushNext(log, table, f, "data", {})
         IN  FlushRest(r.log, r.db, r.flush)

FlushAlone(log, table) ==
    LET r == FlushStart(log, table, "data", {})
    IN  FlushRest(r.log, r.db, r.flush)

FlushesDone ==
    /\ mainPc = "ensure"
    /\ \A o \in FlushOwners : ~flush[o].active

\* C5: flushes of the same Log that interleave at their sleeps end with the
\* remote records and the stored flags a single flush run alone ends with.
C5_FlushesConverge ==
    FlushesDone =>
        /\ conversation_history = FlushAlone(obs.base[1], obs.base[2]).log
        /\ db = FlushAlone(obs.base[1], obs.base[2]).db

\* two flushes overlapped on a Log of more than one group and have ended
C5_Witness ==
    /\ FlushesDone
    /\ obs.overlap
    /\ Cardinality(Unstored(obs.base[1])) > BATCH_SIZE
    /\ Unstored(conversation_history) = {}
    /\ Cardinality(db) = Len(conversation_history) + 1

(***************************************************************************)
(* Claims about what a finished session leaves behind.  Once the main      *)
(* coroutine has returned and the disconnect handler has left the room, no *)
(* task is left that writes, flushes or drains: what has not happened by   *)
(* then never happens.                                                     *)
(***************************************************************************)
SessionOver ==
    /\ mainPc = "done" /\ discPc = "done"
    /\ writeTasks = {}
    /\ ~drain.active
    /\ \A o \in FlushOwners : ~flush[o].active

HasRecord(ts) == \E r \in db : r.session_id = session_id /\ r.timestamp = ts

Flagged(ts) ==
    \E k \in 1..Len(conversation_history) :
        conversation_history[k].timestamp = ts /\ conversation_history[k].stored

\* the timestamps of the messages put into the Log: the session-start marker
\* and the entries of the Log since the context message
Appended ==
    {get_current_timestamp(1)} \cup
    {conversation_history[k].timestamp : k \in 1..Len(conversation_history)}

\* C2: every message whose first write failed ends up either with a remote
\* record and its stored flag set in the Log, or dropped as exhausted.
C2_FailedSettled ==
    SessionOver =>
        \A ts \in obs.failed : (HasRecord(ts) /\ Flagged(ts)) \/ ts \in obs.dropped

\* C3: when the store is healthy from some point on (here: from before the
\* disconnect handler began), every message put into the Log ends up with a
\* remote record.
C3_NoMessageLost ==
    (SessionOver /\ obs.endHealthy) => \A ts \in Appended : HasRecord(ts)

(***************************************************************************)
(* Claims about single writes                                              *)
(***************************************************************************)

\* C11: after a writeOne call that returned success, the Log entry of the
\* message has stored = true.
C11_SuccessMarksStored ==
    \A k \in 1..Len(obs.calls) : obs.calls[k].ret => obs.calls[k].stored

\* C12: a writeOne call that returns failure has added exactly one retry item,
\* with retry_count 0 and the session_id, participant_id and timestamp of its
\* message, at the end of the queue; a call that returns success has added
\* none.
C12_FailureEnqueuesOnce ==
    \A k \in 1..Len(obs.calls) :
        LET c == obs.calls[k]
        IN  /\ c.kept
            /\ ~c.ret => /\ Len(c.added) = 1
                         /\ c.added[1].retry_count = 0
                         /\ c.added[1].session_id = session_id
                         /\ c.added[1].participant_id = c.pid
                         /\ c.added[1].timestamp = c.ts
                         /\ c.added[1].conversation.timestamp = c.ts
            /\ c.ret => c.added = <<>>

\* a call refused by the probe, a call whose upsert failed and a call that
\* wrote: two items in the queue, in the order of the failures
C12_Witness ==
    /\ Len(obs.calls) = 3
    /\ \E a, b, c \in 1..3 :
         /\ ~obs.calls[a].healthy /\ ~obs.calls[a].ret
         /\ obs.calls[b].upserted /\ ~obs.calls[b].ret
         /\ obs.calls[c].ret /\ obs.calls[c].wrote
    /\ Len(retry_queue) = 2
    /\ \A k \in 1..2 : retry_queue[k].retry_count = 0

(***************************************************************************)
(* Writes and their retries: the session of the health-gate specification  *)
(* with the periodic retry processor running; every writeOne call and      *)
(* every upsert of a drain is recorded.                                    *)
(***************************************************************************)
RetryWrite == GateWrite

RetryDrainTick == RetryTickObs(TRUE)

RetryDrainStep == DrainStepObs(TRUE)

NextRetry ==
    \/ GateSpeech
    \/ RetryWrite
    \/ RetryDrainTick
    \/ RetryDrainStep
    \/ StoreRecovers

SpecRetry == InitGate /\ [][NextRetry]_vars

\* C13: an upsert that fails with a duplicate-key error counts as success:
\* writeOne returns success and enqueues nothing, a drain discards the item
\* without incrementing its retry_count; any other failure counts as failure.
C13_DuplicateKeyIsSuccess ==
    /\ \A k \in 1..Len(obs.calls) :
         LET c == obs.calls[k]
         IN  /\ c.out = "dup" => (c.ret /\ c.added = <<>>)
             /\ c.out \in {"nodata", "error"} => ~c.ret
    /\ \A k \in 1..Len(obs.drains) :
         LET d == obs.drains[k]
         IN  /\ d.out = "dup" => (~d.requeued /\ d.after = d.before)
             /\ d.out \in {"nodata", "error"} => (d.requeued /\ d.after = d.before + 1)

(***************************************************************************)
(* The groups of a flush: the session of the flush specification, with a   *)
(* store that may still fail a few upserts; every group upsert is kept in  *)
(* obs.groups.                                                             *)
(***************************************************************************)
InitBatch ==
    \E n \in {BATCH_SIZE + MaxFlushExtra - 1}, S \in SUBSET {1} :
        /\ conversation_history = FlushLog0(n, S)
        /\ retry_queue = [k \in 1..n |-> RetryItem(session_id, "user", QueueLog0(n)[k + 2])]
        /\ db = QueueDb0
        /\ is_speaking = FALSE
        /\ faults = MaxBatchFaults
        /\ clock = n + 3
        /\ mainPc = "said"
        /\ taskPc = [saver |-> "run", retry |-> "run", checker |-> "run"]
        /\ discPc = "none"
        /\ writeTasks = {}
        /\ flush = [o \in FlushOwners |-> NoFlush]
        /\ drain = NoDrain
        /\ obs = [ObsInit EXCEPT !.sent = {[op |-> "writeOne", gated |-> TRUE]},
                                 !.written = {Key(r) : r \in QueueDb0},
                                 !.base = <<FlushLog0(n, S), QueueDb0>>]

NextBatch ==
    \/ SaverTick
    \/ MainEnsure
    \/ FlushStep
    \/ StoreRecovers

SpecBatch == InitBatch /\ [][NextBatch]_vars

\* the groups of the flush that began with group k of the history: its
\* owner's groups up to the owner's next flush
RunOf(k) ==
    {j \in k..Len(obs.groups) :
        /\ obs.groups[j].owner = obs.groups[k].owner
        /\ \A i \in (k + 1)..j :
              ~(obs.groups[i].owner = obs.groups[k].owner /\ obs.groups[i].first)}

RunEnded(k) ==
    \/ ~flush[obs.groups[k].owner].active
    \/ \E j \in (k + 1)..Len(obs.groups) :
          obs.groups[j].owner = obs.groups[k].owner /\ obs.groups[j].first

RECURSIVE RowsOfRun(_, _)
RowsOfRun(k, j) ==
    IF j > Len(obs.groups) THEN <<>>
    ELSE (IF j \in RunOf(k) THEN obs.groups[j].rows ELSE <<>>) \o RowsOfRun(k, j + 1)

CeilDiv(n, d) == (n + d - 1) \div d

\* C14: a flush called on a Log with n unstored entries issues ceil(n/10)
\* group upserts of at most 10 rows each; the groups, in the order issued,
\* hold the entries that were unstored at the call in Log order, each once,
\* and no entry that was stored at the call.
C14_FlushGroups ==
    \A k \in 1..Len(obs.groups) :
        obs.groups[k].first =>
            LET n == Len(obs.groups[k].unstored)
                sent == RowsOfRun(k, k)
            IN  /\ \A j \in RunOf(k) : Len(obs.groups[j].rows) \in 1..BATCH_SIZE
                /\ Len(sent) <= n
                /\ sent = SubSeq(obs.groups[k].unstored, 1, Len(sent))
                /\ Cardinality(RunOf(k)) <= CeilDiv(n, BATCH_SIZE)
                /\ RunEnded(k) => /\ sent = obs.groups[k].unstored
                                  /\ Cardinality(RunOf(k)) = CeilDiv(n, BATCH_SIZE)

\* a flush of 12 unstored entries, called on a Log that also held a stored
\* entry, has ended after a group of 10 and a group of 2
C14_Witness ==
    \E k \in 1..Len(obs.groups) :
        /\ obs.groups[k].first
        /\ RunEnded(k)
        /\ Len(obs.groups[k].unstored) = BATCH_SIZE + 2
        /\ Len(obs.groups[k].unstored) < Len(obs.base[1])
        /\ \E j \in RunOf(k) \ {k} :
              /\ RunOf(k) = {k, j}
              /\ Len(obs.groups[k].rows) = BATCH_SIZE
              /\ Len(obs.groups[j].rows) = 2

\* C15: a group whose upsert fails, by raising or by answering without data,
\* is followed by one single-row upsert for each of its members, and every
\* member whose single-row upsert returns data is flagged stored; a group
\* whose upsert returns data is followed by none.
C15_FailedGroupFallsBack ==
    \A k \in 1..Len(obs.groups) :
        LET g == obs.groups[k]
        IN  /\ g.out = "data" => g.singles = 0
            /\ g.out # "data" => /\ g.singles = Len(g.rows)
                                 /\ g.answered \subseteq g.stored

\* C16: no flush is started while the agent is speaking: no caller of
\* store_full_conversation(), the periodic saver included, has had a flush
\* issue an upsert while the speaking signal was set.
C16_NoFlushWhileSpeaking == obs.spoke = {}

\* C17: a pass of the periodic saver made while the agent is not speaking
\* creates exactly one flush task when the Log has unstored entries and none
\* when it has none.
C17_TickLaunchesOneFlush ==
    \A t \in obs.ticks :
        ~t.speaking => t.launched = (IF t.unstored > 0 THEN 1 ELSE 0)

\* the saver has made a pass that found unstored entries and created a flush
\* task, and a later pass that found none and created none
C17_Witness ==
    /\ \E t \in obs.ticks : ~t.speaking /\ t.unstored > BATCH_SIZE /\ t.launched = 1
    /\ \E t \in obs.ticks : ~t.speaking /\ t.unstored = 0 /\ t.launched = 0
    /\ \E k \in 1..Len(obs.groups) : obs.groups[k].owner = "saver" /\ obs.groups[k].first

(***************************************************************************)
(* The end of a session.  The program keeps no lifecycle variable; the     *)
(* states below are read off the coroutines: the watchdog has ended once   *)
(* it has appended its message and left its loop, the disconnect handler   *)
(* once it has left the room, run_multimodal_agent once its finally block  *)
(* has logged the shutdown.                                                *)
(***************************************************************************)
TerminationCauses == {"idle", "disc"}

Ended(c) == IF c = "idle" THEN taskPc.checker = "done" ELSE discPc = "done"

\* the flush and the drain that were to follow cause c's termination message
\* have been made, whoever made them; an empty queue needs no drain
Followed(c) ==
    \/ obs.after[c] = "drained"
    \/ obs.after[c] = "flushed" /\ retry_queue = <<>>

\* C18: once the watchdog has found the session idle, its termination
\* message is in the Log and the session is terminating: by the time the
\* watchdog has ended, the flush and the drain of the Retry Queue have
\* followed the message.
C18_IdleTerminates ==
    Ended("idle") =>
        /\ \E k \in 1..Len(conversation_history) :
              /\ conversation_history[k].role = "system"
              /\ conversation_history[k].content = "inactivity"
        /\ Followed("idle")

Lifecycle ==
    IF mainPc = "done" THEN "TERMINATED"
    ELSE IF discPc # "none" \/ obs.after.idle # "none" THEN "TERMINATING"
    ELSE IF mainPc \in {"init", "started"} THEN "INIT"
    ELSE "ACTIVE"

LifecycleSteps ==
    {<<"INIT", "ACTIVE">>, <<"ACTIVE", "TERMINATING">>, <<"TERMINATING", "TERMINATED">>}

\* C19: the lifecycle advances INIT, ACTIVE, TERMINATING, TERMINATED one
\* state at a time and never goes back, and once run_multimodal_agent has
\* completed its teardown no termination handling runs any more.
C19_LifecycleInOrder ==
    [][/\ Lifecycle' # Lifecycle => <<Lifecycle, Lifecycle'>> \in LifecycleSteps
       /\ mainPc = "done" => discPc' = discPc]_vars

\* C20: each entry into termination, by disconnect or by the watchdog, is
\* followed in this order by its termination message, a flush and a drain of
\* the Retry Queue: when the handler of the cause has ended, the flush and
\* then the drain have been made after the message.
C20_TerminationSequence ==
    \A c \in TerminationCauses : Ended(c) => Followed(c)

\* C21: once run_multimodal_agent has completed its teardown, no Message is
\* appended to the Log and no upsert reaches the remote store.
C21_NothingAfterTeardown ==
    [][mainPc = "done" => /\ conversation_history' = conversation_history
                          /\ db' = db
                          /\ obs.sent' = obs.sent]_vars

(***************************************************************************)
(* The drains of a waiting queue: a session after its welcome message in   *)
(* which the writes of the user messages failed; the store keeps failing   *)
(* for a while.  The periodic retry processor drains; every item a drain   *)
(* handles is kept in obs.pops.                                            *)
(***************************************************************************)
InitDrain ==
    /\ conversation_history = QueueLog0(MaxDrainItems)
    /\ retry_queue = [k \in 1..MaxDrainItems |->
                        RetryItem(session_id, "user", QueueLog0(MaxDrainItems)[k + 2])]
    /\ db = QueueDb0
    /\ is_speaking = FALSE
    /\ faults = MaxDrainFaults
    /\ clock = MaxDrainItems + 3
    /\ mainPc = "said"
    /\ taskPc = [saver |-> "run", retry |-> "run", checker |-> "run"]
    /\ discPc = "none"
    /\ writeTasks = {}
    /\ flush = [o \in FlushOwners |-> NoFlush]
    /\ drain = NoDrain
    /\ obs = [ObsInit EXCEPT !.sent = {[op |-> "writeOne", gated |-> TRUE]},
                             !.written = {Key(r) : r \in QueueDb0}]

NextDrain ==
    \/ RetryDrainTick
    \/ RetryDrainStep
    \/ StoreRecovers

SpecDrain == InitDrain /\ [][NextDrain]_vars

\* the events of obs.pops about the item with timestamp ts
PopsOf(ts) == {i \in 1..Len(obs.pops) : obs.pops[i].ts = ts}

\* C26: a retry item's retry_count starts at 0, never decreases, grows by
\* exactly 1 with each failed re-attempt, and is never above 5 in the queue.
C26_RetryCountSteps ==
    /\ \A k \in 1..Len(retry_queue) :
          /\ retry_queue[k].retry_count \in 0..MAX_RETRY_COUNT
          /\ PopsOf(retry_queue[k].timestamp) = {} => retry_queue[k].retry_count = 0
    /\ \A i \in 1..Len(obs.pops) :
          LET e == obs.pops[i]
              earlier == {j \in PopsOf(e.ts) : j < i}
          IN  /\ e.before = Cardinality(earlier)
              /\ e.after = (IF e.kind \in {"unhealthy", "failed"} THEN e.before + 1 ELSE e.before)
              /\ e.kind \in {"unhealthy", "failed"} => e.back
              /\ \A j \in earlier : obs.pops[j].after <= e.before

\* an item has failed five re-attempts, sat in the queue with retry_count 5
\* and was dropped by the next drain
C26_Witness ==
    \E i \in 1..Len(obs.pops) :
        /\ obs.pops[i].kind = "dropped"
        /\ obs.pops[i].before = MAX_RETRY_COUNT
        /\ Cardinality(PopsOf(obs.pops[i].ts)) = MAX_RETRY_COUNT + 1

\* C29: an item whose re-attempt fails goes back behind every item that was
\* waiting, in the queue or in the rest of the drain's batch, so each of those
\* is handled by a drain before the failing item is handled again.
C29_FailingItemWaitsItsTurn ==
    \A i \in 1..Len(obs.pops) :
        LET e == obs.pops[i]
        IN  e.kind \in {"unhealthy", "failed"} =>
              /\ e.back
              /\ \A j \in PopsOf(e.ts) :
                    (j > i /\ \A m \in PopsOf(e.ts) : ~(i < m /\ m < j)) =>
                        \A t \in (e.ahead \cup e.rest) \ {e.ts} :
                            \E m \in PopsOf(t) : i < m /\ m < j

\* an item failed while another one was ahead of it in the queue, and that
\* one was handled before the failing item came up again
C29_Witness ==
    \E i, j \in 1..Len(obs.pops) :
        /\ i < j
        /\ obs.pops[i].ts = obs.pops[j].ts
        /\ obs.pops[i].kind = "failed"
        /\ obs.pops[i].ahead # {}
        /\ \E m \in (i + 1)..(j - 1) : obs.pops[m].ts \in obs.pops[i].ahead

\* C30: an item whose health probe in a drain is unhealthy gets no upsert,
\* goes to the tail of the queue with its retry_count one higher, and the
\* drain goes on with the next item of its batch.
C30_UnhealthyProbeRequeues ==
    /\ Cardinality({i \in 1..Len(obs.pops) : obs.pops[i].kind \in {"stored", "failed"}})
          = Len(obs.drains)
    /\ \A i \in 1..Len(obs.pops) :
          LET e == obs.pops[i]
          IN  e.kind = "unhealthy" =>
                /\ e.back
                /\ e.after = e.before + 1
                /\ e.next # 0 => /\ i < Len(obs.pops)
                                 /\ obs.pops[i + 1].ts = e.next

\* a drain found the store unhealthy for the first item of its batch, put it
\* back with retry_count 1 and upserted the second item
C30_Witness ==
    \E i \in 1..(Len(obs.pops) - 1) :
        /\ obs.pops[i].kind = "unhealthy"
        /\ obs.pops[i].before = 0 /\ obs.pops[i].after = 1
        /\ obs.pops[i + 1].kind = "stored"
        /\ \E k \in 1..Len(retry_queue) :
              /\ retry_queue[k].timestamp = obs.pops[i].ts
              /\ retry_queue[k].retry_count = 1
        /\ Len(obs.drains) = 1

(***************************************************************************)
(* Teardown: a session after its welcome message in which the writes of    *)
(* the user messages failed: either so many that the Log is longer than    *)
(* one group and the queue longer than one periodic batch, the first       *)
(* ensure_storage_completed() having got no data back and the store being  *)
(* back since; or a few, the same with the store still failing; or a few,  *)
(* the store back and the first ensure_storage_completed() still to come.  *)
(* The periodic tasks run, then run_multimodal_agent goes through its      *)
(* finally block.                                                          *)
(***************************************************************************)
InitTeardown ==
    \E c \in {<<BATCH_SIZE - 1, 0, "ensure">>,
               <<MaxTeardownItems, MaxTeardownFaults, "ensure">>,
               <<MaxTeardownItems, 0, "said">>} :
    /\ conversation_history = QueueLog0(c[1])
    /\ retry_queue = [k \in 1..c[1] |-> RetryItem(session_id, "user", QueueLog0(c[1])[k + 2])]
    /\ db = QueueDb0
    /\ is_speaking = FALSE
    /\ faults = c[2]
    /\ clock = c[1] + 3
    /\ mainPc = c[3]
    /\ taskPc = [saver |-> "run", retry |-> "run", checker |-> "run"]
    /\ discPc = "none"
    /\ writeTasks = {}
    /\ flush = [o \in FlushOwners |-> NoFlush]
    /\ drain = NoDrain
    /\ obs = [ObsInit EXCEPT !.sent = {[op |-> "writeOne", gated |-> TRUE]},
                             !.written = {Key(r) : r \in QueueDb0},
                             !.base = <<QueueLog0(c[1]), QueueDb0>>]

TeardownFinalDrain == MainFinalDrainObs(TRUE)

NextTeardown ==
    \/ SaverTick
    \/ FlushStep
    \/ RetryDrainTick
    \/ RetryDrainStep
    \/ MainEnsure
    \/ MainTeardown
    \/ TeardownFinalDrain
    \/ MainDone
    \/ StoreRecovers

SpecTeardown == InitTeardown /\ [][NextTeardown]_vars

\* C23: teardown cancels every periodic task before it calls its final
\* flush, calls its final drain only when that flush has ended, and calls
\* each of the two at most once.
C23_TeardownOrder ==
    /\ mainPc \in {"finalflush", "finaldrain", "done"} =>
          /\ \A t \in DOMAIN taskPc : taskPc[t] # "run"
          /\ Len(obs.final) >= 1
    /\ mainPc \notin {"finalflush", "finaldrain", "done"} => obs.final = <<>>
    /\ Len(obs.final) <= 2
    /\ Len(obs.final) >= 1 => /\ obs.final[1].op = "flush"
                              /\ obs.final[1].running = {}
    /\ Len(obs.final) = 2 => /\ obs.final[2].op = "drain"
                             /\ obs.final[2].running = {}
                             /\ ~obs.final[2].flushing
                             /\ mainPc \in {"finaldrain", "done"}
    /\ drain.active /\ drain.owner = "main" => ~flush["main"].active

\* teardown has cancelled the three periodic tasks, run a final flush of two
\* groups to its end and then its final drain
C23_Witness ==
    /\ mainPc = "done"
    /\ Len(obs.final) = 2
    /\ \A t \in DOMAIN taskPc : taskPc[t] = "cancelled"
    /\ \E k \in 1..Len(obs.groups) : /\ obs.groups[k].owner = "main"
                                      /\ ~obs.groups[k].first

Queued == {retry_queue[k].timestamp : k \in 1..Len(retry_queue)}

\* C27: when teardown has completed, every retry item a drain took off the
\* queue is persisted, dropped as exhausted, back in the queue, or still held
\* by a drain in progress; none is lost, also when the drain was cancelled
\* between two items.
C27_PoppedItemsAccounted ==
    mainPc = "done" =>
        \A ts \in obs.taken :
            \/ HasRecord(ts) \/ ts \in obs.dropped \/ ts \in Queued
            \/ /\ drain.active
               /\ \E j \in drain.k..Len(drain.temp) : drain.temp[j].timestamp = ts

\* the tasks of the session that are running or pending: periodic tasks not
\* ended, write tasks created and not yet run, flushes and drains suspended
\* between two steps, the disconnect handler between its flushes
TasksAlive ==
    {t \in DOMAIN taskPc : taskPc[t] = "run"}
    \cup {"write" : w \in writeTasks}
    \cup {"flush" : o \in {p \in FlushOwners : flush[p].active}}
    \cup (IF drain.active THEN {"drain"} ELSE {})
    \cup (IF discPc \in {"flush1", "flush2"} THEN {"disconnect"} ELSE {})

\* C22: at the step that completes teardown no task of the session is
\* running or pending any more.
C22_NoTaskLeftAtTeardown ==
    [][(mainPc # "done" /\ mainPc' = "done") => TasksAlive' = {}]_vars

\* run_multimodal_agent is suspended and other coroutines run: it is not
\* between a final flush that found nothing to store, or a final drain, and
\* the lines that follow them
MainSuspended ==
    /\ mainPc # "finaldrain"
    /\ mainPc = "finalflush" => obs.final[1].waits

\* C24: while the session is ACTIVE the periodic saver, the retry processor
\* and the idle watchdog all run: none has ended or been cancelled.
C24_ActiveTasksRun ==
    (Lifecycle = "ACTIVE" /\ MainSuspended /\ ENABLED UserSpeech) =>
        \A t \in DOMAIN taskPc : taskPc[t] = "run"

\* a step in which an error is raised inside a cycle of periodic task t: for
\* the retry processor an upsert or a probe of its drain that fails, for the
\* watchdog the ForceDisconnectError it raises at 1519; the saver's cycle
\* calls nothing that raises, its flush runs in a task of its own
CycleError(t) ==
    /\ taskPc[t] = "run"
    /\ CASE t = "retry" -> /\ mainPc' = mainPc /\ discPc' = discPc
                           /\ drain' # drain
                           /\ faults' < faults
                           /\ \/ drain.active /\ drain.owner = "periodic"
                              \/ ~drain.active /\ drain'.owner = "periodic"
         [] t = "checker" -> obs.after.idle = "none" /\ obs'.after.idle = "entered"
         [] OTHER -> FALSE

\* C25: a periodic task in whose cycle an error is raised catches it and is
\* still running afterwards, to run its next cycle.
C25_CycleErrorKeepsTask ==
    [][\A t \in DOMAIN taskPc : CycleError(t) => taskPc'[t] = "run"]_vars

(***************************************************************************)
(* Marking: store_full_conversation() called by ensure_storage_completed() *)
(* on a Log longer than one group, the store answering every upsert.  The  *)
(* Log is any content of the shape the producers make: its last user       *)
(* message may carry the timestamp string of an earlier one (two           *)
(* get_current_timestamp() calls within one tick of the clock), under the  *)
(* same role or another.                                                   *)
(***************************************************************************)
MarkLog0(n, S, d, role) ==
    [k \in 1..(n + 2) |->
        IF k = n + 2
        THEN [FlushLog0(n, S)[k] EXCEPT !.timestamp = FlushLog0(n, S)[d].timestamp,
                                        !.role = role,
                                        !.content = "speech again"]
        ELSE FlushLog0(n, S)[k]]

MarkInit(n, S, d, role, f) ==
    /\ conversation_history = MarkLog0(n, S, d, role)
    /\ retry_queue = <<>>
    /\ db = QueueDb0
    /\ is_speaking = FALSE
    /\ faults = f
    /\ clock = n + 3
    /\ mainPc = "said"
    /\ taskPc = [saver |-> "run", retry |-> "run", checker |-> "run"]
    /\ discPc = "none"
    /\ writeTasks = {}
    /\ flush = [o \in FlushOwners |-> NoFlush]
    /\ drain = NoDrain
    /\ obs = [ObsInit EXCEPT !.sent = {[op |-> "writeOne", gated |-> TRUE]},
                             !.written = {Key(r) : r \in QueueDb0},
                             !.base = <<MarkLog0(n, S, d, role), QueueDb0>>]

InitMark ==
    \E n \in (BATCH_SIZE + 1)..(BATCH_SIZE + MaxFlushExtra), S \in SUBSET {1, 2},
       role \in {"user", "assistant"} :
      \E d \in {3, 4, n + 2} : MarkInit(n, S, d, role, 0)

NextMark ==
    \/ MainEnsure
    \/ FlushStep

SpecMark == InitMark /\ [][NextMark]_vars

\* C28: when a flush all of whose upserts succeeded has ended, every entry of
\* the Log that was unstored when it began is flagged stored, whatever the
\* Log holds, entries with the same timestamp and role included.
C28_FlushMarksEveryEntry ==
    FlushesDone =>
        \A k \in Unstored(obs.base[1]) : conversation_history[k].stored

\* C31: an item popped with retry_count >= 5 is dropped: no upsert is made
\* for it, it is not put back, and it is never in the queue or handled again.
C31_ExhaustedItemDropped ==
    /\ \A i \in 1..Len(obs.pops) :
          LET e == obs.pops[i]
          IN  /\ e.before >= MAX_RETRY_COUNT <=> e.kind = "dropped"
              /\ e.kind = "dropped" =>
                    /\ ~e.back
                    /\ e.ts \in obs.dropped
                    /\ e.ts \notin Queued
                    /\ ~HasRecord(e.ts)
                    /\ \A j \in PopsOf(e.ts) : j <= i
    /\ \A d \in 1..Len(obs.drains) : obs.drains[d].before < MAX_RETRY_COUNT

\* a drain has dropped an exhausted item, which is in no queue and has no
\* record, and has gone on with the next item of its batch
C31_Witness ==
    \E i \in 1..(Len(obs.pops) - 1) :
        /\ obs.pops[i].kind = "dropped"
        /\ obs.pops[i].next # 0
        /\ obs.pops[i + 1].ts = obs.pops[i].next
        /\ obs.pops[i].ts \notin Queued
        /\ ~HasRecord(obs.pops[i].ts)

(***************************************************************************)
(* Playback that can be cancelled: the whole session, in which the task    *)
(* that awaits agent.say() may also be cancelled from outside (the worker  *)
(* shutting the job down).                                                 *)
(***************************************************************************)
\* say_and_store, 2218 cancelled: CancelledError is no Exception, so it passes
\* the handlers at 2225-2235 and 2245-2252 and leaves run_multimodal_agent's
\* try block at 2270; the finally block follows
MainSayCancelled ==
    /\ mainPc = "speaking"
    /\ mainPc' = "ensure"
    /\ UNCHANGED <<conversation_history, retry_queue, db, is_speaking, faults, clock,
                   taskPc, discPc, writeTasks, flush, drain, obs>>

NextSay ==
    \/ Next
    \/ MainSayCancelled

SpecSay == Init /\ [][NextSay]_vars

\* C32: the speaking signal is true exactly while agent.say() is awaited:
\* true from just before playback starts, false again once playback has
\* ended, however it ended.
C32_SpeakingOnlyDuringPlayback ==
    is_speaking <=> mainPc = "speaking"

(***************************************************************************)
(* The cycles of the retry driver: the welcome message is being played or  *)
(* has been played, the user messages committed so far failed their writes *)
(* and wait in the queue (none, a few, or more than one periodic batch),   *)
(* and the store may still fail.  The retry processor wakes up again and   *)
(* again.                                                                  *)
(***************************************************************************)
InitDriver ==
    \E n \in {0, MaxDriverExtra, DRAIN_PERIODIC_BATCH + MaxDriverExtra},
       f \in 0..MaxDriverFaults, playing \in BOOLEAN :
        /\ conversation_history = QueueLog0(n)
        /\ retry_queue = [k \in 1..n |-> RetryItem(session_id, "user", QueueLog0(n)[k + 2])]
        /\ db = QueueDb0
        /\ is_speaking = playing
        /\ faults = f
        /\ clock = n + 3
        /\ mainPc = IF playing THEN "speaking" ELSE "said"
        /\ taskPc = [saver |-> "run", retry |-> "run", checker |-> "run"]
        /\ discPc = "none"
        /\ writeTasks = {}
        /\ flush = [o \in FlushOwners |-> NoFlush]
        /\ drain = NoDrain
        /\ obs = [ObsInit EXCEPT !.sent = {[op |-> "writeOne", gated |-> TRUE]},
                                 !.written = {Key(r) : r \in QueueDb0}]

NextDriver ==
    \/ RetryDrainTick
    \/ RetryDrainStep
    \/ MainSayEnd
    \/ StoreRecovers

SpecDriver == InitDriver /\ [][NextDriver]_vars

\* C33: the retry processor starts a drain only at a cycle at which the queue
\* is not empty and the speaking signal is false; the drain takes at most 5
\* items off the front of the queue and leaves the others as they are; a
\* cycle whose connectivity check fails, like every other cycle, leaves the
\* queue unchanged.
C33_DriverStartsDrain ==
    [][~drain.active =>
         /\ (retry_queue' # retry_queue \/ drain' # drain \/ obs'.pops # obs.pops) =>
               /\ retry_queue # <<>>
               /\ ~is_speaking
               /\ Len(obs'.pops) > Len(obs.pops)
               /\ Len(retry_queue') >= Len(Drop(retry_queue, DRAIN_PERIODIC_BATCH))
               /\ SubSeq(retry_queue', 1, Len(Drop(retry_queue, DRAIN_PERIODIC_BATCH)))
                     = Drop(retry_queue, DRAIN_PERIODIC_BATCH)
               /\ obs'.taken \ obs.taken \subseteq
                     {retry_queue[k].timestamp :
                        k \in 1..Len(Take(retry_queue, DRAIN_PERIODIC_BATCH))}
               /\ drain'.active => /\ drain'.owner = "periodic"
                                   /\ drain'.temp = Take(retry_queue, DRAIN_PERIODIC_BATCH)
         /\ (faults' < faults /\ obs'.pops = obs.pops) =>
               (retry_queue' = retry_queue /\ drain' = drain)]_vars

\* the welcome message has been played and a cycle of the retry processor
\* has taken five of the seven waiting items; the other two are still the
\* front of the queue
C33_Witness ==
    /\ drain.active
    /\ drain.owner = "periodic"
    /\ Len(drain.temp) = DRAIN_PERIODIC_BATCH
    /\ Len(obs.pops) >= 1
    /\ ~is_speaking
    /\ Len(retry_queue) >= MaxDriverExtra
    /\ \A k \in 1..MaxDriverExtra :
          retry_queue[k].timestamp \notin obs.taken

(***************************************************************************)
(* The order of the drains: more items wait than one periodic batch takes, *)
(* the participant goes on speaking and the store may fail, so that items  *)
(* are pushed back and enqueued while a drain is suspended between two     *)
(* items.                                                                  *)
(***************************************************************************)
InitFifo ==
    \E n \in {DRAIN_PERIODIC_BATCH + MaxFifoExtra} :
        /\ conversation_history = QueueLog0(n)
        /\ retry_queue = [k \in 1..n |-> RetryItem(session_id, "user", QueueLog0(n)[k + 2])]
        /\ db = QueueDb0
        /\ is_speaking = FALSE
        /\ faults = MaxFifoFaults
        /\ clock = n + 3
        /\ mainPc = "said"
        /\ taskPc = [saver |-> "run", retry |-> "run", checker |-> "run"]
        /\ discPc = "none"
        /\ writeTasks = {}
        /\ flush = [o \in FlushOwners |-> NoFlush]
        /\ drain = NoDrain
        /\ obs = [ObsInit EXCEPT !.sent = {[op |-> "writeOne", gated |-> TRUE]},
                                 !.written = {Key(r) : r \in QueueDb0}]

FifoSpeech == UserSpeechUpTo(DRAIN_PERIODIC_BATCH + 2 * MaxFifoExtra + 2)

NextFifo ==
    \/ RetryDrainTick
    \/ RetryDrainStep
    \/ FifoSpeech
    \/ RetryWrite
    \/ StoreRecovers

SpecFifo == InitFifo /\ [][NextFifo]_vars

\* C34: a drain handles exactly the min(batchSize, queue length) oldest items
\* of the queue it was called on, in their order; items enqueued or pushed
\* back while it runs are not handled by it.  Stated on every step that
\* handles items: the items handled are the next ones of the batch fixed at
\* the call, up to where the drain is suspended or to the end of the batch.
C34_DrainTakesOldest ==
    [][(obs'.pops # obs.pops \/ drain' # drain) =>
         LET batch == IF drain.active THEN TimesOf(drain.temp)
                      ELSE [k \in 1..(IF DRAIN_PERIODIC_BATCH < Len(retry_queue)
                                       THEN DRAIN_PERIODIC_BATCH
                                       ELSE Len(retry_queue)) |->
                               retry_queue[k].timestamp]
             from == IF drain.active THEN drain.k ELSE 1
             upto == IF drain'.active THEN drain'.k - 1 ELSE Len(batch)
             new == SubSeq(obs'.pops, Len(obs.pops) + 1, Len(obs'.pops))
         IN  /\ Len(obs'.pops) >= Len(obs.pops)
             /\ [i \in 1..Len(new) |-> new[i].ts] = SubSeq(batch, from, upto)
             /\ drain'.active => TimesOf(drain'.temp) = batch]_vars

\* a drain that took five of the six waiting items is suspended between two
\* of them; behind the sixth item the queue holds an item the drain pushed
\* back and, behind that one, a message enqueued since
C34_Witness ==
    /\ drain.active
    /\ Len(drain.temp) = DRAIN_PERIODIC_BATCH
    /\ drain.k <= Len(drain.temp)
    /\ Len(obs.pops) = drain.k - 1
    /\ retry_queue # <<>>
    /\ retry_queue[1].timestamp \notin obs.taken
    /\ \E a, b \in 2..Len(retry_queue) :
          /\ a < b
          /\ retry_queue[a].timestamp \in obs.taken
          /\ retry_queue[a].retry_count = 1
          /\ retry_queue[b].timestamp \notin obs.taken
          /\ retry_queue[b].timestamp > retry_queue[1].timestamp

\* C35: a periodic task that was cancelled has left its loop: it runs no
\* further cycle, so it starts no flush, starts no drain and appends nothing,
\* and the drain it was awaiting has ended with it.
C35_CancelledTaskStops ==
    /\ taskPc.saver = "cancelled" => ~ENABLED SaverTick
    /\ taskPc.retry = "cancelled" => /\ ~ENABLED RetryTick
                                     /\ ~(drain.active /\ drain.owner = "periodic")
    /\ taskPc.checker = "cancelled" => ~ENABLED CheckerTick

\* the three tasks were cancelled while the retry processor was suspended
\* between two items of a drain; the queue is not empty, the Log holds
\* unstored entries and nobody is speaking, so each task would have had
\* work in its next cycle
C35_Witness ==
    /\ \A t \in DOMAIN taskPc : taskPc[t] = "cancelled"
    /\ obs.taken \ {obs.pops[i].ts : i \in 1..Len(obs.pops)} # {}
    /\ mainPc = "finalflush"
    /\ retry_queue # <<>>
    /\ Unstored(conversation_history) # {}
    /\ ~is_speaking

(***************************************************************************)
(* The health check by itself: check_supabase_health() is called again and *)
(* again; the client is there or not (the module global starts as None),   *)
(* and each request of a call to the store, and create_client, goes well   *)
(* or raises.                                                              *)
(***************************************************************************)
\* verify_supabase_table(), 249-273: False without a client or when the select
\* raises
verify_supabase_table(client, select) == client /\ select

\* an init_supabase() that does not look at the answer of the verification
init_supabase_NoVerify(create, verify, test) ==
    [ret |-> create /\ test,
     client |-> create,
     inits |-> 1]

\* init_supabase(), 275-308, with the credentials in the environment: the
\* client is replaced when create_client returns; True when the verification
\* and the test query went through as well, False when any of them raised
init_supabase(create, verify, test) ==
    [ret |-> create /\ verify_supabase_table(create, verify) /\ test,
     client |-> create,
     inits |-> 1]

\* check_supabase_health(), 426-447, step by step: what it returns, whether
\* there is a client afterwards, and the init_supabase() calls it made
HealthCall(client, probe, create, verify, test) ==
    IF ~client
    THEN LET r == init_supabase(create, verify, test)
         IN  [r EXCEPT !.client = client \/ @]
    ELSE IF probe THEN [ret |-> TRUE, client |-> TRUE, inits |-> 0]
    ELSE LET r == init_supabase(create, verify, test)
         IN  [r EXCEPT !.client = TRUE]

InitHealth ==
    \E client \in BOOLEAN :
        /\ conversation_history = QueueLog0(0)
        /\ retry_queue = <<>>
        /\ db = QueueDb0
        /\ is_speaking = FALSE
        /\ faults = 0
        /\ clock = 3
        /\ mainPc = "said"
        /\ taskPc = [saver |-> "run", retry |-> "run", checker |-> "run"]
        /\ discPc = "none"
        /\ writeTasks = {}
        /\ flush = [o \in FlushOwners |-> NoFlush]
        /\ drain = NoDrain
        /\ obs = [ObsInit EXCEPT !.health = <<[after |-> client]>>]

HealthCheck ==
    /\ Len(obs.health) <= MaxHealthCalls
    /\ \E probe, create, verify, test \in BOOLEAN :
         LET r == HealthCall(obs.health[Len(obs.health)].after, probe, create, verify, test)
         IN  obs' = [obs EXCEPT !.health = Append(@,
                       [client |-> obs.health[Len(obs.health)].after, probe |-> probe,
                        create |-> create, verify |-> verify, test |-> test,
                        ret |-> r.ret, inits |-> r.inits, after |-> r.client])]
    /\ UNCHANGED <<conversation_history, retry_queue, db, is_speaking, faults, clock,
                   mainPc, taskPc, discPc, writeTasks, flush, drain>>

NextHealth == HealthCheck

SpecHealth == InitHealth /\ [][NextHealth]_vars

\* C36: a health check returns true exactly when its first probe succeeded
\* or, after one re-initialisation of the client, the repeated probe
\* succeeded; it re-initialises at most once and always returns a boolean.
C36_HealthResult ==
    \A k \in 2..Len(obs.health) :
        LET c == obs.health[k]
            first == c.client /\ c.probe
            again == c.create /\ c.verify /\ c.test
        IN  /\ c.ret \in BOOLEAN
            /\ c.ret <=> (first \/ again)
            /\ c.inits \in {0, 1}
            /\ first => c.inits = 0
            /\ c.ret = check_supabase_health(first, again)

\* a call whose probe raised, whose client was re-created but whose
\* verification query raised again: it returned false after one
\* re-initialisation; the next call's probe went through
C36_Witness ==
    /\ Len(obs.health) = 3
    /\ obs.health[2].client /\ ~obs.health[2].probe
    /\ obs.health[2].create /\ ~obs.health[2].verify /\ obs.health[2].test
    /\ ~obs.health[2].ret /\ obs.health[2].inits = 1
    /\ obs.health[3].probe /\ obs.health[3].ret /\ obs.health[3].inits = 0

(***************************************************************************)
(* Marking with a store that may fail: the flush of the marking            *)
(* specification, one of whose upserts may go wrong.                       *)
(***************************************************************************)
InitMarkFault ==
    \E d \in {3, BATCH_SIZE + 3} :
        MarkInit(BATCH_SIZE + 1, {}, d, "user", MaxMarkFaults)

NextMarkFault ==
    \/ MainEnsure
    \/ FlushStep
    \/ StoreRecovers

SpecMarkFault == InitMarkFault /\ [][NextMarkFault]_vars

\* C37: an entry is flagged stored only once an upsert carrying its own row
\* has succeeded: never because the row of another entry was written, and
\* never after its own write failed.  Stated on the entries a flush has
\* flagged: some upsert that returned data carried the row built from it.
C37_StoredMeansOwnWrite ==
    \A k \in 1..Len(conversation_history) :
        LET m == conversation_history[k]
        IN  (m.stored /\ ~obs.base[1][k].stored) =>
                \E g \in 1..Len(obs.groups) :
                    <<m.timestamp, m.role, m.content>> \in obs.groups[g].wrote

(***************************************************************************)
(* The record of a message written first in full and then from the retry   *)
(* queue                                                                   *)
(***************************************************************************)
\* C38: the record of a message does not depend on the order of its writes:
\* an upsert that lands on a record holding the full message leaves the
\* conversation payload under that key as it was.
C38_DrainKeepsPayload ==
    [][\A r \in db : r.conversation.meta = "full" =>
            \A x \in db' : Key(x) = Key(r) =>
                /\ x.conversation = r.conversation
                /\ x.user_email = r.user_email]_vars

(***************************************************************************)
(* writeOne during playback of the welcome message: the session from the   *)
(* start of playback, with user messages and the inactivity message of the *)
(* connection checker arriving while the agent speaks and after; every     *)
(* call is recorded in obs.calls.                                          *)
(***************************************************************************)
InitDefer ==
    \E f \in 0..MaxDeferFaults :
        /\ conversation_history = QueueLog0(0)
        /\ retry_queue = <<>>
        /\ db = {r \in QueueDb0 : r.participant_id = "system"}
        /\ is_speaking = TRUE
        /\ faults = f
        /\ clock = 3
        /\ mainPc = "speaking"
        /\ taskPc = [saver |-> "run", retry |-> "run", checker |-> "run"]
        /\ discPc = "none"
        /\ writeTasks = {[idx |-> Len(QueueLog0(0)), pid |-> "assistant"]}
        /\ flush = [o \in FlushOwners |-> NoFlush]
        /\ drain = NoDrain
        /\ obs = [ObsInit EXCEPT !.sent = {[op |-> "writeOne", gated |-> TRUE]},
                                 !.written = {<<session_id, r.timestamp>> :
                                     r \in {x \in QueueDb0 : x.participant_id = "system"}}]

DeferSpeech == UserSpeechUpTo(MaxDeferLog)

NextDefer ==
    \/ DeferSpeech
    \/ CheckerTick
    \/ GateWrite
    \/ MainSayEnd
    \/ StoreRecovers

SpecDefer == InitDefer /\ [][NextDefer]_vars

\* C39: a writeOne call for a system message made while the speaking signal
\* is true runs no probe and no upsert, appends the message to the retry
\* queue as an item with retry_count 0 and returns failure; a call for a user
\* or assistant message runs its probe whatever the speaking signal is.
C39_SystemWriteDeferredWhileSpeaking ==
    \A k \in 1..Len(obs.calls) :
        LET c == obs.calls[k]
        IN  /\ (c.speaking /\ c.pid = "system") =>
                  /\ ~c.probed /\ ~c.upserted /\ ~c.wrote /\ ~c.ret
                  /\ c.kept /\ c.queued = 1
                  /\ c.added[1].timestamp = c.ts
                  /\ c.added[1].participant_id = "system"
                  /\ c.added[1].retry_count = 0
            /\ c.pid # "system" => c.probed /\ (c.healthy => c.upserted)

\* during one playback a system message was deferred and a user message was
\* written to the store
C39_Witness ==
    \E a, b \in 1..Len(obs.calls) :
        /\ obs.calls[a].speaking /\ obs.calls[a].pid = "system"
        /\ obs.calls[a].queued = 1 /\ ~obs.calls[a].ret
        /\ obs.calls[b].speaking /\ obs.calls[b].pid = "user"
        /\ obs.calls[b].wrote /\ obs.calls[b].ret

(***************************************************************************)
(* The final drain: a session whose user messages all failed their write   *)
(* and were stored later by a flush, so that the Log is stored and every    *)
(* message still has its item in the queue, more items than one default     *)
(* batch.  The retry processor runs until run_multimodal_agent goes through *)
(* its finally block.                                                       *)
(***************************************************************************)
FinalLog0 ==
    [k \in 1..(DRAIN_DEFAULT_BATCH + MaxFinalExtra + 2) |->
        [QueueLog0(DRAIN_DEFAULT_BATCH + MaxFinalExtra)[k] EXCEPT !.stored = TRUE]]

FinalDb0 ==
    Upsert(QueueDb0, MessagesToStore(QueueLog0(DRAIN_DEFAULT_BATCH + MaxFinalExtra)))

InitFinal ==
    \E f \in 0..MaxFinalFaults :
        /\ conversation_history = FinalLog0
        /\ retry_queue = [k \in 1..(DRAIN_DEFAULT_BATCH + MaxFinalExtra) |->
                              RetryItem(session_id, "user", FinalLog0[k + 2])]
        /\ db = FinalDb0
        /\ is_speaking = FALSE
        /\ faults = f
        /\ clock = DRAIN_DEFAULT_BATCH + MaxFinalExtra + 3
        /\ mainPc = "ensure"
        /\ taskPc = [saver |-> "run", retry |-> "run", checker |-> "run"]
        /\ discPc = "none"
        /\ writeTasks = {}
        /\ flush = [o \in FlushOwners |-> NoFlush]
        /\ drain = NoDrain
        /\ obs = [ObsInit EXCEPT !.sent = {[op |-> "writeOne", gated |-> TRUE]},
                                 !.written = {Key(r) : r \in FinalDb0}]

NextFinal ==
    \/ RetryDrainTick
    \/ RetryDrainStep
    \/ MainTeardown
    \/ TeardownFinalDrain
    \/ MainDone
    \/ StoreRecovers

SpecFinal == InitFinal /\ [][NextFinal]_vars

\* C40: teardown calls its final drain at most once; the drain takes the
\* first 10 items of the queue at most and handles each of them once; the
\* items behind them stay at the head of the queue as they were, and when
\* teardown has completed every item whose re-attempt failed is in the queue
\* behind them with its count raised by one, and nothing of the session can
\* drain the queue any more.
C40_FinalDrainOnce ==
    LET FinalDrains == {k \in 1..Len(obs.final) : obs.final[k].op = "drain"}
        BackAt(n, ts, c) ==
            {k \in (n + 1)..Len(retry_queue) :
                retry_queue[k].timestamp = ts /\ retry_queue[k].retry_count = c}
    IN
    /\ Cardinality(FinalDrains) <= 1
    /\ \A d \in FinalDrains :
         LET f == obs.final[d]
             mine == SubSeq(obs.pops, f.at + 1, Len(obs.pops))
         IN  /\ Len(f.took) <= DRAIN_DEFAULT_BATCH
             /\ f.left # <<>> => Len(f.took) = DRAIN_DEFAULT_BATCH
             /\ SubSeq(retry_queue, 1, Len(f.left)) = f.left
             /\ Len(mine) <= Len(f.took)
             /\ \A j \in 1..Len(mine) : mine[j].ts = f.took[j].timestamp
             /\ mainPc = "done" =>
                   /\ Len(mine) = Len(f.took)
                   /\ \A j \in 1..Len(mine) :
                        IF mine[j].kind \in {"failed", "unhealthy"}
                        THEN BackAt(Len(f.left), mine[j].ts, mine[j].before + 1) # {}
                        ELSE BackAt(0, mine[j].ts, mine[j].before) = {}
    /\ mainPc = "done" =>
          /\ ~drain.active
          /\ ~ENABLED RetryDrainTick
          /\ ~ENABLED RetryDrainStep
          /\ ~ENABLED TeardownFinalDrain

\* teardown has completed; its final drain took 10 items of a longer queue,
\* stored some and failed on another, which is back in the queue behind the
\* items the drain left there
C40_Witness ==
    LET FinalDrains == {k \in 1..Len(obs.final) : obs.final[k].op = "drain"}
        BackAt(n, ts, c) ==
            {k \in (n + 1)..Len(retry_queue) :
                retry_queue[k].timestamp = ts /\ retry_queue[k].retry_count = c}
    IN
    /\ mainPc = "done"
    /\ \E d \in FinalDrains :
         LET f == obs.final[d]
             mine == SubSeq(obs.pops, f.at + 1, Len(obs.pops))
         IN  /\ Len(f.took) = DRAIN_DEFAULT_BATCH
             /\ f.left # <<>>
             /\ \E a, b \in 1..Len(mine) :
                  /\ mine[a].kind = "stored"
                  /\ mine[b].kind = "failed"
                  /\ BackAt(Len(f.left), mine[b].ts, mine[b].before + 1) # {}

====
